---- MODULE Spec2Model ----
(***************************************************************************)
(* A model of the LIKU daemon core: the command security policy, the       *)
(* request handlers that drive sandbox resources, the event bus (emit,     *)
(* stream, subscribe, get_recent_events) and the SQLite state backend.     *)
(*                                                                         *)
(* Text is modelled as a sequence of one-character strings, so that        *)
(* str.strip, str.split, str.startswith, json.dumps and json.loads are     *)
(* computed the way the Python code computes them.                         *)
(***************************************************************************)
EXTENDS Integers, Sequences, FiniteSets, TLC

(***************************************************************************)
(* Bounds of the model.                                                    *)
(***************************************************************************)
MaxCmdLen == 3
\* the longest text payload drawn over TextAlphabet
MaxTextLen == 3
\* emit calls in one behaviour
MaxEmits == 3
\* readings of the clock: time.time() yields 0..MaxClock
MaxClock == 2
\* clock readings that fall into one second of CURRENT_TIMESTAMP
TicksPerSecond == 2
\* the largest limit passed to get_recent_events
MaxLimit == 2
\* stream / subscribe runs in one behaviour
MaxStreams == 2
\* calls on the agent_session table in one behaviour
MaxStoreOps == 3
\* requests one daemon handles in one behaviour
MaxRequests == 3
\* resources the sandbox backends create in one behaviour
MaxResources == 2
\* StateBackend(db_path) constructions on one database file in one behaviour
MaxOpens == 3
\* set_approval_mode / get_approval_mode calls in one behaviour
MaxApprovalOps == 3
\* get_sandbox calls begun in one daemon lifetime
MaxGets == 3
\* requests handed to _process_request in one behaviour
MaxWire == 1
\* connections made to one daemon, and stop() calls from other threads
MaxConns == 2
MaxStops == 2
\* elements of the "agents" list of a configuration file
MaxAgentEntries == 2
\* threads writing to one store at once
NWorkers == 3
\* the debounce window in clock ticks, the last clock reading, and the
\* should_emit and normalize_output calls in one behaviour
DebounceWindow == 2
MaxDebClock == 5
MaxDebCalls == 3
MaxNormCalls == 2
\* the longest raw line drawn over RawAlphabet
MaxRawLen == 4
\* ordinary writes through the handles of one database file
MaxRaceWrites == 2
\* start() calls per daemon
MaxPairStarts == 2

VARIABLES
    \* LikuDaemon: the loaded policy (liku_daemon.py:103-123)
    global_policies,    \* [blocked_commands: set of command prefixes]
    agent_configs,      \* function: configured agent name -> its config
    \* one application of _is_command_allowed
    pol_agent, pol_command, pol_result,
    \* EventBus and the event_log table
    files,              \* events directory: file name -> [ts, type, payload text]
    event_log,          \* rows of event_log, in rowid order
    now,                \* the clock: what int(time.time() * 1e9) returns
    db_attached,        \* EventBus.db is not None
    emit_req,           \* the arguments of the last emit call
    emit_ret,           \* how the last emit call ended
    n_emits,            \* emit calls so far
    n_returned,         \* emit calls that returned a path
    n_logged,           \* emit calls whose db.log_event returned
    recent,             \* the last get_recent_events call and its result
    \* one stream(follow=False) generator and its consumer
    str_pc, str_pending, str_out, str_start, str_prev, sub_filter, sub_calls, sub_raised,
    n_streams,
    \* the agent_session table and the last call on it
    sessions, store_ret, n_store_ops,
    \* the daemon: the sandbox instances the factory caches, the resources the
    \* backends hold, the last request, its response and its backend call
    _instances, resources, request, response, backend_call, n_requests,
    \* the database file and one StateBackend being constructed on it
    db_objects,         \* tables and indexes the file holds (committed)
    db_versions,        \* committed rows of schema_version
    open_pc,            \* where _initialize_database stands
    open_txn,           \* schema_version rows inserted and not yet committed
    open_step,          \* [version, done]: the migration under way and its statements done
    open_pre,           \* the file when this construction began
    n_opens, n_migrations,
    \* the approval_settings table, the last call on it, the calls that succeeded
    approval_settings, appr_ret, appr_history, n_appr_ops,
    \* SandboxFactory under the connection-handler threads
    fac_cache,          \* SandboxFactory._instances: mode -> instance, 0 for no key
    fac_thread,         \* per thread: where its get_sandbox call stands
    fac_built,          \* the instances constructed, as records [id, mode]
    fac_returned,       \* the (mode, instance) pairs calls have returned
    n_gets,
    \* _process_request called on its own: the last request and what came of it
    wire_request, wire_result, n_wire,
    \* one LikuDaemon from start() to the end of stop()
    use_tcp,            \* self.use_tcp
    running,            \* self.running
    socket_server,      \* self.socket_server: "None", "open" or "closed"
    sock_file,          \* the file at socket_path: "absent", "stale" or "bound"
    main_pc,            \* where the thread that called start() stands
    main_conn,          \* the connection accept() has just returned
    conns,              \* the connections clients made
    stop_began,         \* an interrupt or a stop() call has happened
    n_stops,
    \* the configuration file LikuDaemon.__init__ found, and whether it was loaded
    cfg_file, cfg_loaded,
    \* threads writing through one StateBackend
    st_lock,            \* self._lock: "free" or the thread that holds it
    st_pc,              \* per thread: where its two calls stand
    st_conn,            \* per thread: self._local.connection, 0 for no attribute
    st_used,            \* the <<connection, thread>> pairs: who executed on what
    n_conns,
    \* WatcherFactory.build: the platform, the programs on PATH, the call
    w_system,           \* platform.system()
    w_installed,        \* the programs shutil.which finds
    w_exists,           \* os.path.exists(directory)
    w_recursive,
    w_result,           \* what build returned or raised; NoBuild before the call
    \* EventBus.stream(follow=True)
    fol_importable,     \* whether "from watcher_factory import ..." succeeds
    fol_pc,             \* "idle", "backlog", "watch", "poll" or "raised"
    fol_pending,        \* backlog files not yet yielded
    fol_seen,           \* poll loop: last_seen; watch loop: the paths reported
    fol_out,            \* the names of the events yielded, in order
    \* database.log_event: one call and the two tables it writes
    rt_input,           \* [agent_name, message, type]
    rt_pc,              \* "call", "loop", "returned" or "raised"
    rt_attempt,         \* the loop variable of "for attempt in range(5)"
    rt_sleeps,          \* the time.sleep arguments so far, in tenths of a second
    rt_error,           \* the exception that left the call: "none", "locked", "other"
    rt_logs,            \* rows of the logs table
    rt_agents,          \* the agents table: name -> [status, last_task_id]
    \* Debouncer and WatcherFactory.normalize_output
    deb_last,           \* Debouncer._last_events: key -> time of the accepted event
    deb_now,            \* time.time(), in ticks
    deb_hist,           \* the should_emit calls so far: [path, kind, t, emit, epoch]
    deb_epoch,          \* the number of reset() calls so far
    nz_call,            \* the last normalize_output call: [raw, delimiter]
    nz_ret,             \* what it returned
    n_norm,             \* normalize_output calls so far
    \* two StateBackend handles constructed on one database file
    rc_objects,         \* the tables and indexes of the file
    rc_versions,        \* the committed rows of schema_version
    rc_pc,              \* handle -> "new", "migrating", "recording", "committing", "open", "failed"
    rc_step,            \* handle -> the version it is migrating to, 0 for none
    rc_done,            \* handle -> the statements of that migration it has run
    rc_txn,             \* handle -> the versions inserted and not yet committed
    rc_writer,          \* the handle holding SQLite's write lock, or NoHandle
    rc_applied,         \* version -> how many times its migration has run
    rc_locked,          \* handle -> the operations that acquired its self._lock
    n_rc_writes,        \* writes through the opened handles so far
    \* one connection: the client's sendall and the daemon's recv
    rv_payload,         \* the text the client hands to sendall
    rv_arrived,         \* how much of it has reached the daemon's socket
    rv_data,            \* what client_socket.recv(4096) returned
    rv_sent,            \* the responses the daemon sent
    rv_pc,               \* "idle", "sending", "handled"
    \* two daemons configured with one socket path (liku_daemon.py:159-221)
    pd_pc,              \* daemon -> where it is in start() or stop()
    pd_listening,       \* daemon -> its socket is bound and open
    pd_file,            \* the daemon whose socket the file names, or NoDaemon
    pd_starts           \* daemon -> the start() calls made

polVars == <<pol_agent, pol_command, pol_result>>
confVars == <<global_policies, agent_configs>>
busVars == <<files, event_log, now, db_attached, emit_req, emit_ret, n_emits, n_returned, n_logged>>
queryVars == <<recent>>
streamVars == <<str_pc, str_pending, str_out, str_start, str_prev, sub_filter, sub_calls,
                sub_raised, n_streams>>
storeVars == <<sessions, store_ret, n_store_ops>>
daemonVars == <<_instances, resources, request, response, backend_call, n_requests>>
schemaVars == <<db_objects, db_versions, open_pc, open_txn, open_step, open_pre, n_opens,
                n_migrations>>
approvalVars == <<approval_settings, appr_ret, appr_history, n_appr_ops>>
\* the variables of the later parts of the model
factoryVars == <<fac_cache, fac_thread, fac_built, fac_returned, n_gets>>
wireVars == <<wire_request, wire_result, n_wire>>
serverVars == <<use_tcp, running, socket_server, sock_file, main_pc, main_conn, conns, stop_began,
                n_stops>>
configVars == <<cfg_file, cfg_loaded>>
threadVars == <<st_lock, st_pc, st_conn, st_used, n_conns>>
watcherVars == <<w_system, w_installed, w_exists, w_recursive, w_result>>
followVars == <<fol_importable, fol_pc, fol_pending, fol_seen, fol_out>>
retryVars == <<rt_input, rt_pc, rt_attempt, rt_sleeps, rt_error, rt_logs, rt_agents>>
normVars == <<deb_last, deb_now, deb_hist, deb_epoch, nz_call, nz_ret, n_norm>>
raceVars == <<rc_objects, rc_versions, rc_pc, rc_step, rc_done, rc_txn, rc_writer, rc_applied, rc_locked, n_rc_writes>>
recvVars == <<rv_payload, rv_arrived, rv_data, rv_sent, rv_pc>>
pairVars == <<pd_pc, pd_listening, pd_file, pd_starts>>
\* the variables of the parts added last, and those of all these parts but one
extVars == <<configVars, threadVars, watcherVars, followVars, retryVars, normVars, raceVars, recvVars, pairVars>>
besides_configVars == <<threadVars, watcherVars, followVars, retryVars, normVars, raceVars, recvVars, pairVars>>
besides_threadVars == <<configVars, watcherVars, followVars, retryVars, normVars, raceVars, recvVars, pairVars>>
besides_watcherVars == <<configVars, threadVars, followVars, retryVars, normVars, raceVars, recvVars, pairVars>>
besides_followVars == <<configVars, threadVars, watcherVars, retryVars, normVars, raceVars, recvVars, pairVars>>
besides_retryVars == <<configVars, threadVars, watcherVars, followVars, normVars, raceVars, recvVars, pairVars>>
besides_normVars == <<configVars, threadVars, watcherVars, followVars, retryVars, raceVars, recvVars, pairVars>>
besides_raceVars == <<configVars, threadVars, watcherVars, followVars, retryVars, normVars, recvVars, pairVars>>
besides_recvVars == <<configVars, threadVars, watcherVars, followVars, retryVars, normVars, raceVars, pairVars>>
besides_pairVars == <<configVars, threadVars, watcherVars, followVars, retryVars, normVars, raceVars, recvVars>>
moreVars == <<schemaVars, approvalVars, factoryVars, wireVars, serverVars, extVars>>
vars == <<confVars, polVars, busVars, queryVars, streamVars, storeVars, daemonVars, moreVars>>

\* what the steps of one part of the model leave alone
openRest == <<confVars, polVars, busVars, queryVars, streamVars, storeVars, daemonVars,
              approvalVars, factoryVars, wireVars, serverVars, extVars>>
approvalRest == <<confVars, polVars, busVars, queryVars, streamVars, storeVars, daemonVars,
                  schemaVars, factoryVars, wireVars, serverVars, extVars>>
factoryRest == <<confVars, polVars, busVars, queryVars, streamVars, storeVars, daemonVars,
                 schemaVars, approvalVars, wireVars, serverVars, extVars>>
serverRest == <<confVars, polVars, busVars, queryVars, streamVars, storeVars, daemonVars,
                schemaVars, approvalVars, factoryVars, wireVars, extVars>>
\* the variables of the parts before the last ones
baseVars == <<polVars, busVars, queryVars, streamVars, storeVars, daemonVars, schemaVars,
              approvalVars, factoryVars, wireVars, serverVars>>

(***************************************************************************)
(* Python str helpers on character sequences.                              *)
(***************************************************************************)
\* str.isspace of one character
IsSpace(c) == c = " "

RECURSIVE lstrip(_)
lstrip(s) == IF s # <<>> /\ IsSpace(Head(s)) THEN lstrip(Tail(s)) ELSE s

RECURSIVE rstrip(_)
rstrip(s) ==
    IF s # <<>> /\ IsSpace(s[Len(s)]) THEN rstrip(SubSeq(s, 1, Len(s) - 1)) ELSE s

\* str.strip()
strip(s) == rstrip(lstrip(s))

\* str.startswith(p)
startswith(s, p) == Len(p) <= Len(s) /\ SubSeq(s, 1, Len(p)) = p

\* length of the leading run of non-space characters
RECURSIVE WordLen(_)
WordLen(s) == IF s = <<>> \/ IsSpace(Head(s)) THEN 0 ELSE 1 + WordLen(Tail(s))

\* str.split() with no argument: the maximal runs of non-space characters
RECURSIVE split(_)
split(s) ==
    LET t == lstrip(s)
        n == WordLen(t)
    IN  IF t = <<>> THEN <<>>
        ELSE <<SubSeq(t, 1, n)>> \o split(SubSeq(t, n + 1, Len(t)))

\* all character sequences over alphabet A of length lo..hi
SeqsOver(A, lo, hi) == UNION {[1..n -> A] : n \in lo..hi}

(***************************************************************************)
(* JSON values and Python's json.dumps / json.loads on character           *)
(* sequences.  A value is [t, s, k, v]: t the kind ("null", "str", "arr",  *)
(* "obj"), s the characters of a string, k the keys of an object and v the *)
(* items of an array or the values of an object.  The grammar is JSON      *)
(* without numbers and without true/false: the texts of the model hold no  *)
(* digit outside string literals and none of t, f, N, I, -.                *)
(***************************************************************************)
Q == "\""
BS == "\\"
JNull == [t |-> "null", s |-> <<>>, k |-> <<>>, v |-> <<>>]
JStr(s) == [t |-> "str", s |-> s, k |-> <<>>, v |-> <<>>]
JArr(v) == [t |-> "arr", s |-> <<>>, k |-> <<>>, v |-> v]
JObj(k, v) == [t |-> "obj", s |-> <<>>, k |-> k, v |-> v]

\* the characters of a string as json.dumps writes them between the quotes
RECURSIVE Escape(_)
Escape(s) ==
    IF s = <<>> THEN <<>>
    ELSE (IF Head(s) \in {Q, BS} THEN <<BS, Head(s)>> ELSE <<Head(s)>>) \o Escape(Tail(s))

\* json.dumps(value) with the default separators ", " and ": "
RECURSIVE dumps(_)
RECURSIVE DumpItems(_, _, _)
DumpItems(keys, vals, i) ==
    IF i > Len(vals) THEN <<>>
    ELSE (IF i > 1 THEN <<",", " ">> ELSE <<>>)
         \o (IF keys # <<>> THEN <<Q>> \o Escape(keys[i]) \o <<Q, ":", " ">> ELSE <<>>)
         \o dumps(vals[i])
         \o DumpItems(keys, vals, i + 1)
dumps(val) ==
    CASE val.t = "null" -> <<"n", "u", "l", "l">>
      [] val.t = "str" -> <<Q>> \o Escape(val.s) \o <<Q>>
      [] val.t = "arr" -> <<"[">> \o DumpItems(<<>>, val.v, 1) \o <<"]">>
      [] val.t = "obj" -> <<"{">> \o DumpItems(val.k, val.v, 1) \o <<"}">>

\* a parse step's result: the value and the unread rest, or a failure
Parsed(val, rest) == [ok |-> TRUE, val |-> val, rest |-> rest]
ParseError == [ok |-> FALSE, val |-> JNull, rest |-> <<>>]

\* the scanner's string literal, after the opening quote: acc holds the
\* characters read so far
RECURSIVE ParseString(_, _)
ParseString(s, acc) ==
    IF s = <<>> THEN ParseError
    ELSE IF Head(s) = Q THEN Parsed(JStr(acc), Tail(s))
    ELSE IF Head(s) = BS
         THEN IF Len(s) >= 2 /\ s[2] \in {Q, BS}
              THEN ParseString(Tail(Tail(s)), Append(acc, s[2]))
              ELSE ParseError
    ELSE ParseString(Tail(s), Append(acc, Head(s)))

RECURSIVE ParseValue(_)
RECURSIVE ParseArrayItems(_, _)
RECURSIVE ParseObjectItems(_, _, _)

\* after "[" or after a ",": a value, then "," or "]"
ParseArrayItems(s, acc) ==
    LET item == ParseValue(lstrip(s))
        after == lstrip(item.rest)
    IN  IF ~item.ok \/ after = <<>> THEN ParseError
        ELSE IF Head(after) = "," THEN ParseArrayItems(Tail(after), Append(acc, item.val))
        ELSE IF Head(after) = "]" THEN Parsed(JArr(Append(acc, item.val)), Tail(after))
        ELSE ParseError

\* after "{" or after a ",": "key" : value, then "," or "}"
ParseObjectItems(s, keys, vals) ==
    LET t == lstrip(s)
        key == IF t # <<>> /\ Head(t) = Q THEN ParseString(Tail(t), <<>>) ELSE ParseError
        colon == lstrip(key.rest)
        item == IF key.ok /\ colon # <<>> /\ Head(colon) = ":"
                THEN ParseValue(lstrip(Tail(colon)))
                ELSE ParseError
        after == lstrip(item.rest)
    IN  IF ~item.ok \/ after = <<>> THEN ParseError
        ELSE IF Head(after) = ","
             THEN ParseObjectItems(Tail(after), Append(keys, key.val.s), Append(vals, item.val))
        ELSE IF Head(after) = "}"
             THEN Parsed(JObj(Append(keys, key.val.s), Append(vals, item.val)), Tail(after))
        ELSE ParseError

ParseValue(s) ==
    IF s = <<>> THEN ParseError
    ELSE IF Head(s) = Q THEN ParseString(Tail(s), <<>>)
    ELSE IF Head(s) = "[" THEN
        (IF lstrip(Tail(s)) # <<>> /\ Head(lstrip(Tail(s))) = "]"
         THEN Parsed(JArr(<<>>), Tail(lstrip(Tail(s))))
         ELSE ParseArrayItems(Tail(s), <<>>))
    ELSE IF Head(s) = "{" THEN
        (IF lstrip(Tail(s)) # <<>> /\ Head(lstrip(Tail(s))) = "}"
         THEN Parsed(JObj(<<>>, <<>>), Tail(lstrip(Tail(s))))
         ELSE ParseObjectItems(Tail(s), <<>>, <<>>))
    ELSE IF startswith(s, <<"n", "u", "l", "l">>) THEN Parsed(JNull, SubSeq(s, 5, Len(s)))
    ELSE ParseError

\* json.loads(text): one value between optional whitespace, or a failure
\* (JSONDecodeError), also on extra data after the value
loads(text) ==
    LET r == ParseValue(lstrip(text))
    IN  IF r.ok /\ lstrip(r.rest) = <<>> THEN r ELSE ParseError

(***************************************************************************)
(* The security policy.                                                    *)
(***************************************************************************)
Agents == {"a1", "a2"}
\* Python None for an agent name
NoAgent == "None"

CmdAlphabet == {"m", "r", " "}
\* non-empty request keys: _send_keys rejects empty keys before the check
Commands == SeqsOver(CmdAlphabet, 1, MaxCmdLen)

\* an agent's "policies" mapping; has_allowed tells whether the key
\* allowed_commands is present, sandbox_mode "unset" that the key is absent
Policies(has, allowed, mode) ==
    [has_allowed |-> has, allowed_commands |-> allowed, sandbox_mode |-> mode]
NoPolicies == Policies(FALSE, {}, "unset")
\* an entry of agent_configs; has_policies tells whether the key is present
AgentConf(hasp, pol) == [has_policies |-> hasp, policies |-> pol]

\* dict.get("policies", {})
PoliciesOf(conf) == IF conf.has_policies THEN conf.policies ELSE NoPolicies

\* LikuDaemon._is_command_allowed: "allow" (True), "deny" (False) or "raise"
\* (the IndexError of command.strip().split()[0] on a whitespace-only command)
_is_command_allowed(agent_name, command) ==
    IF command = <<>> THEN "allow"
    ELSE IF \E blocked \in global_policies.blocked_commands :
                startswith(strip(command), blocked)
    THEN "deny"
    ELSE IF agent_name = NoAgent THEN "allow"
    ELSE IF agent_name \notin DOMAIN agent_configs THEN "allow"
    ELSE LET allowed_commands == PoliciesOf(agent_configs[agent_name]).allowed_commands
         IN  IF allowed_commands = {} THEN "allow"
             ELSE IF split(strip(command)) = <<>> THEN "raise"
             ELSE IF split(strip(command))[1] \notin allowed_commands THEN "deny"
             ELSE "allow"

\* the policies a configuration file can hold in this model
BlockedChoices == {{}, {<<"r">>}, {<<"r", " ", "r">>}, {<<"r", " ">>, <<"m", "m">>}}
AllowedChoices == {{}, {<<"m">>}, {<<"m">>, <<"r">>}, {<<"r", "m">>}}
ModeChoices == {"unset", "tmux", "docker", "bogus"}
ConfChoices ==
    {AgentConf(FALSE, NoPolicies)}
    \cup {AgentConf(TRUE, Policies(FALSE, {}, m)) : m \in ModeChoices}
    \cup {AgentConf(TRUE, Policies(TRUE, al, m)) : al \in AllowedChoices, m \in {"unset", "docker"}}

\* _load_agent_configs: agent_configs holds the named entries of the file
LoadedConfigs == UNION {[D -> ConfChoices] : D \in SUBSET Agents}

\* the policy variables of a daemon without a configuration file, and of a
\* behaviour that does not apply the policy
ConfIdle == global_policies = [blocked_commands |-> {}] /\ agent_configs = <<>>
PolIdle == pol_agent = NoAgent /\ pol_command = <<>> /\ pol_result = "unset"

(***************************************************************************)
(* LikuDaemon._load_agent_configs: the configuration file and what the     *)
(* loader makes of it.                                                     *)
(***************************************************************************)
\* an element of the file's "agents" value: a mapping with a name, a
\* mapping without one, or something that is no mapping
NamedEntry(name, conf) == [kind |-> "agent", name |-> name, conf |-> conf]
EntryChoices ==
    {NamedEntry(name, conf) :
        name \in Agents,
        conf \in {AgentConf(FALSE, NoPolicies),
                  AgentConf(TRUE, Policies(TRUE, {<<"m">>}, "docker"))}}
    \cup {[kind |-> k, name |-> NoAgent, conf |-> AgentConf(FALSE, NoPolicies)] :
            k \in {"noname", "scalar"}}

NoGlobalPolicies == [blocked_commands |-> {}]

\* the file: kind says whether it exists, parses, and what its top level is;
\* agents_kind what the value of "agents" is
ConfigFile(kind, has_global, global, agents_kind, agents) ==
    [kind |-> kind, has_global |-> has_global, global |-> global,
     agents_kind |-> agents_kind, agents |-> agents]
MissingFile == ConfigFile("missing", FALSE, NoGlobalPolicies, "absent", <<>>)
ConfigFiles ==
    {ConfigFile(kind, FALSE, NoGlobalPolicies, "absent", <<>>) :
        kind \in {"missing", "unparsable", "empty", "scalar"}}
    \cup {ConfigFile("mapping", has_global, IF has_global THEN global ELSE NoGlobalPolicies,
                     agents_kind, IF agents_kind = "list" THEN agents ELSE <<>>) :
            has_global \in BOOLEAN,
            global \in {[blocked_commands |-> {<<"r">>}],
                        [blocked_commands |-> {<<"r", " ">>, <<"m", "m">>}]},
            agents_kind \in {"absent", "null", "scalar", "string", "list"},
            agents \in SeqsOver(EntryChoices, 0, MaxAgentEntries)}

\* lines 114-116: the loop over agent_list; "name" in agent_config raises
\* TypeError on an element that is no container, and what was stored before
\* stays
RECURSIVE LoadAgents(_, _)
LoadAgents(agent_list, acc) ==
    IF agent_list = <<>> THEN acc
    ELSE IF Head(agent_list).kind = "scalar" THEN acc
    ELSE IF Head(agent_list).kind = "noname" THEN LoadAgents(Tail(agent_list), acc)
    ELSE LoadAgents(Tail(agent_list),
                    [n \in DOMAIN acc \cup {Head(agent_list).name} |->
                        IF n = Head(agent_list).name THEN Head(agent_list).conf ELSE acc[n]])

\* _load_agent_configs: the attributes it leaves.  A missing file, a YAML
\* error and data.get on what is no mapping leave both empty; after that
\* global_policies is assigned, and an "agents" value that cannot be
\* iterated (null, a number) raises with it assigned; a string is iterated
\* by character and no character contains "name"
_load_agent_configs(file) ==
    IF file.kind # "mapping"
    THEN [global_policies |-> NoGlobalPolicies, agent_configs |-> <<>>]
    ELSE [global_policies |-> IF file.has_global THEN file.global ELSE NoGlobalPolicies,
          agent_configs |-> IF file.agents_kind = "list" THEN LoadAgents(file.agents, <<>>)
                            ELSE <<>>]

ConfigIdle == cfg_file = MissingFile /\ cfg_loaded = FALSE

(***************************************************************************)
(* EventBus.emit and the event files.                                      *)
(***************************************************************************)
\* Python payload values: None, a dict, a str, and two values of another
\* type, an int 0..9 and the empty list
PyNone == [py |-> "none", val |-> JNull, text |-> <<>>, n |-> 0]
PyDict(val) == [py |-> "dict", val |-> val, text |-> <<>>, n |-> 0]
PyStr(text) == [py |-> "str", val |-> JNull, text |-> text, n |-> 0]
PyInt(n) == [py |-> "int", val |-> JNull, text |-> <<>>, n |-> n]
PyList == [py |-> "list", val |-> JNull, text |-> <<>>, n |-> 0]

Digits == <<"0", "1", "2", "3", "4", "5", "6", "7", "8", "9">>
\* str(payload) of a value that is neither None, a dict nor a str
str(payload) == IF payload.py = "int" THEN <<Digits[payload.n + 1]>> ELSE <<"[", "]">>

\* emit, lines 64-76: the JSON text of the payload
payload_json(payload) ==
    CASE payload.py = "none" -> <<"n", "u", "l", "l">>
      [] payload.py = "dict" -> dumps(payload.val)
      [] payload.py = "str" ->
            IF startswith(strip(payload.text), <<"{">>) \/ startswith(strip(payload.text), <<"[">>)
            THEN payload.text
            ELSE dumps(JStr(payload.text))
      [] OTHER -> dumps(JStr(str(payload)))

\* the directory after open(event_file, 'w') and json.dump: a file of that
\* name is created or overwritten
WriteFile(dir, name, content) ==
    [f \in DOMAIN dir \cup {name} |-> IF f = name THEN content ELSE dir[f]]

\* the second CURRENT_TIMESTAMP shows at clock reading t
Second(t) == t \div TicksPerSecond

\* StateBackend.log_event: one row appended, its payload json.dumps'ed
log_event(log, event_type, payload, session_key, agent_name) ==
    Append(log, [id |-> Len(log) + 1, event_type |-> event_type,
                 payload |-> dumps(payload), session_key |-> session_key,
                 agent_name |-> agent_name, created_at |-> Second(now)])

NoKey == "None"
NoEmit == [outcome |-> "none", file |-> 0, db_error |-> FALSE]

\* the name of the event file: int(time.time() * 1e9)
event_file_name(t) == t

\* EventBus.emit(event_type, payload, session_key, agent_name); db_fails
\* tells whether db.log_event raises in this call
emit(event_type, payload, session_key, agent_name, db_fails) ==
    LET parsed == loads(payload_json(payload))
        name == event_file_name(now)
    IN  /\ n_emits < MaxEmits
        /\ n_emits' = n_emits + 1
        /\ emit_req' = [event_type |-> event_type, payload |-> payload]
        /\ IF ~parsed.ok
           THEN \* json.loads(payload_json) raises JSONDecodeError
                /\ emit_ret' = [outcome |-> "raised", file |-> 0, db_error |-> FALSE]
                /\ UNCHANGED <<files, event_log, n_returned, n_logged>>
           ELSE /\ files' = WriteFile(files, name,
                        [ts |-> now, type |-> event_type, payload |-> dumps(parsed.val)])
                /\ event_log' = IF db_attached /\ ~db_fails
                                THEN log_event(event_log, event_type, parsed.val,
                                               session_key, agent_name)
                                ELSE event_log
                \* the exception of log_event is caught and a warning printed
                /\ emit_ret' = [outcome |-> "returned", file |-> name,
                                db_error |-> db_attached /\ db_fails]
                /\ n_returned' = n_returned + 1
                /\ n_logged' = IF db_attached /\ ~db_fails THEN n_logged + 1 ELSE n_logged
        /\ UNCHANGED <<now, db_attached>>

\* time passes: the next reading of the clock is larger
Tick ==
    /\ now < MaxClock
    /\ now' = now + 1
    /\ UNCHANGED <<files, event_log, db_attached, emit_req, emit_ret, n_emits, n_returned,
                   n_logged>>

EventTypes == {"t.a", "t.b"}
\* one payload that normalizes and one text that only looks like JSON
SmallPayloads == {PyNone, PyStr(<<"{">>)}

BusInit ==
    /\ files = <<>>
    /\ event_log = <<>>
    /\ now = 0
    /\ emit_req = [event_type |-> "t.a", payload |-> PyNone]
    /\ emit_ret = NoEmit
    /\ n_emits = 0
    /\ n_returned = 0
    /\ n_logged = 0

(***************************************************************************)
(* EventBus.get_recent_events and StateBackend.get_events.                 *)
(***************************************************************************)
Min(a, b) == IF a < b THEN a ELSE b
Max(a, b) == IF a > b THEN a ELSE b

\* sorted(...) of a set of file names
RECURSIVE sorted(_)
sorted(S) ==
    IF S = {} THEN <<>>
    ELSE LET least == CHOOSE x \in S : \A y \in S : x <= y
         IN  <<least>> \o sorted(S \ {least})

\* seq[:k]
Take(seq, k) == SubSeq(seq, 1, Min(k, Len(seq)))
\* seq[-k:], which is the whole of seq for k = 0
LastK(seq, k) == IF k = 0 THEN seq ELSE SubSeq(seq, Max(1, Len(seq) - k + 1), Len(seq))

\* Python None for an event type filter
NoType == "None"

\* the rows WHERE 1=1 [AND event_type = ?] selects
MatchingRows(event_type) ==
    {event_log[i] : i \in {j \in 1..Len(event_log) :
                             event_type = NoType \/ event_log[j].event_type = event_type}}

\* every order ORDER BY created_at DESC allows: rows of one created_at come
\* in an order SQL leaves to the query plan
OrderByCreatedDesc(rows) ==
    {r \in [1..Cardinality(rows) -> rows] :
        \A i, j \in 1..Cardinality(rows) :
            i < j => r[i] # r[j] /\ r[i].created_at >= r[j].created_at}

\* a row or a file as the event dictionary handed to the caller
RowEvent(row) == [id |-> row.id, type |-> row.event_type, payload |-> loads(row.payload).val]
FileEvent(name) == [id |-> name, type |-> files[name].type,
                    payload |-> loads(files[name].payload).val]

\* StateBackend.get_events(event_type, limit): the results the query may give
get_events(event_type, limit) ==
    {[i \in 1..Min(limit, Len(r)) |-> RowEvent(r[i])] :
        r \in OrderByCreatedDesc(MatchingRows(event_type))}

\* get_recent_events without a store: the last `limit` files, filtered
RECURSIVE FilterFiles(_, _)
FilterFiles(names, event_type) ==
    IF names = <<>> THEN <<>>
    ELSE (IF event_type = NoType \/ files[Head(names)].type = event_type
          THEN <<FileEvent(Head(names))>> ELSE <<>>)
         \o FilterFiles(Tail(names), event_type)

NoQuery == [valid |-> FALSE, event_type |-> NoType, limit |-> 0, source |-> "none",
            rows |-> 0, events |-> <<>>]

\* EventBus.get_recent_events(event_type, limit)
get_recent_events(event_type, limit) ==
    /\ \E events \in (IF db_attached THEN get_events(event_type, limit)
                      ELSE {FilterFiles(LastK(sorted(DOMAIN files), limit), event_type)}) :
            recent' = [valid |-> TRUE, event_type |-> event_type, limit |-> limit,
                       source |-> IF db_attached THEN "db" ELSE "files",
                       rows |-> Len(event_log), events |-> events]
    /\ UNCHANGED busVars

QueryIdle == recent = NoQuery

(***************************************************************************)
(* EventBus.stream(follow=False) as a generator, and EventBus.subscribe,   *)
(* which drives it and calls the callback.                                 *)
(***************************************************************************)
\* the consumer of a plain stream: no filter, no callback
NoFilter == "none"
\* a run of the generator: the directory when it started, the number of
\* event files written before it started and before it ended, what it yielded
NoRun == [valid |-> FALSE, begin |-> <<>>, wbegin |-> 0, wend |-> 0, out |-> <<>>]

\* the listing of the events directory in descending order
ListEvents_unsorted ==
    [i \in 1..Cardinality(DOMAIN files) |->
        sorted(DOMAIN files)[Cardinality(DOMAIN files) + 1 - i]]

\* sorted(self.events_dir.glob("*.event")): the names, listed when the
\* generator starts
ListEvents == sorted(DOMAIN files)

\* a subscribe loop that lets the exception of the callback end it
subscribe_after_callback_propagate(raised) == IF raised THEN "done" ELSE "iter"

\* subscribe, lines 180-183: where the loop goes after callback(event)
\* returned or raised; the exception is caught and printed
subscribe_after_callback(raised) == "iter"

\* the first next() of stream(follow=False), for a plain consumer
\* (filter = NoFilter) or for subscribe(filter, callback, follow=False)
stream_start(filter) ==
    /\ str_pc \in {"idle", "done"}
    /\ n_streams < MaxStreams
    /\ n_streams' = n_streams + 1
    /\ str_prev' = IF str_pc = "done"
                   THEN [valid |-> TRUE, begin |-> str_start.begin,
                         wbegin |-> str_start.wbegin, wend |-> str_start.wend,
                         out |-> str_out]
                   ELSE str_prev
    /\ str_pc' = "iter"
    /\ str_pending' = ListEvents
    /\ str_out' = <<>>
    /\ str_start' = [begin |-> files, wbegin |-> n_returned, wend |-> n_returned]
    /\ sub_filter' = filter
    /\ sub_calls' = <<>>
    /\ sub_raised' = <<>>

\* one turn of the for loop: the file is opened and loaded when its turn
\* comes, the event is yielded, and subscribe calls the callback on a match
stream_yield(raised) ==
    /\ str_pc = "iter"
    /\ str_pending # <<>>
    /\ LET name == Head(str_pending)
           event == [name |-> name, type |-> files[name].type,
                     payload |-> loads(files[name].payload).val]
           matches == sub_filter # NoFilter /\ (sub_filter = "*" \/ event.type = sub_filter)
       IN  /\ str_out' = Append(str_out, event)
           /\ sub_calls' = IF matches THEN Append(sub_calls, event) ELSE sub_calls
           /\ sub_raised' = IF matches THEN Append(sub_raised, raised) ELSE sub_raised
           /\ str_pc' = IF matches THEN subscribe_after_callback(raised) ELSE "iter"
    /\ str_pending' = Tail(str_pending)
    /\ UNCHANGED <<str_start, str_prev, sub_filter, n_streams>>

\* the backlog is exhausted and follow is False: the generator returns
stream_end ==
    /\ str_pc = "iter"
    /\ str_pending = <<>>
    /\ str_pc' = "done"
    /\ str_start' = [str_start EXCEPT !.wend = n_returned]
    /\ UNCHANGED <<str_pending, str_out, str_prev, sub_filter, sub_calls, sub_raised, n_streams>>

StreamIdle ==
    /\ str_pc = "idle"
    /\ str_pending = <<>>
    /\ str_out = <<>>
    /\ str_start = [begin |-> <<>>, wbegin |-> 0, wend |-> 0]
    /\ str_prev = NoRun
    /\ sub_filter = NoFilter
    /\ sub_calls = <<>>
    /\ sub_raised = <<>>
    /\ n_streams = 0

(***************************************************************************)
(* StateBackend: the agent_session table.  Rows are kept in rowid order;   *)
(* created_at and updated_at are left out.                                 *)
(***************************************************************************)
SessionKeys == {"k1", "k2"}
\* terminal ids (pane or container ids); 0 is NULL
TerminalIds == {1, 2}
NoTerminal == 0
\* process ids; 0 is NULL
Pids == {0, 7}
SessionModes == {"interactive", "batch"}
Statuses == {"active", "completed", "failed"}

\* the index of the row with the unique key (agent_name, session_key), or 0
FindSession(rows, agent_name, session_key) ==
    IF \E i \in 1..Len(rows) :
            rows[i].agent_name = agent_name /\ rows[i].session_key = session_key
    THEN CHOOSE i \in 1..Len(rows) :
            rows[i].agent_name = agent_name /\ rows[i].session_key = session_key
    ELSE 0

\* a plain INSERT: the row is added whether or not the pair has one
upsert_session_plain_insert(rows, agent_name, session_key, terminal_id, pid, mode) ==
    Append(rows, [id |-> Len(rows) + 1, agent_name |-> agent_name,
                  session_key |-> session_key, terminal_id |-> terminal_id,
                  pid |-> pid, status |-> "active", mode |-> mode])

\* INSERT INTO agent_session ... ON CONFLICT(agent_name, session_key)
\* DO UPDATE SET terminal_id, pid, mode: the table after the statement
upsert_session(rows, agent_name, session_key, terminal_id, pid, mode) ==
    LET i == FindSession(rows, agent_name, session_key)
    IN  IF i = 0
        THEN Append(rows, [id |-> Len(rows) + 1, agent_name |-> agent_name,
                           session_key |-> session_key, terminal_id |-> terminal_id,
                           pid |-> pid, status |-> "active", mode |-> mode])
        ELSE [rows EXCEPT ![i] = [@ EXCEPT !.terminal_id = terminal_id,
                                           !.pid = pid, !.mode = mode]]

NoStoreCall == [op |-> "none", agent_name |-> NoAgent, session_key |-> NoKey,
                terminal_id |-> NoTerminal, pid |-> 0, mode |-> "interactive",
                status |-> "active", existed |-> FALSE, id |-> 0]

\* StateBackend.create_agent_session: returns the id of the row
create_agent_session(agent_name, session_key, terminal_id, pid, mode) ==
    /\ n_store_ops < MaxStoreOps
    /\ n_store_ops' = n_store_ops + 1
    /\ sessions' = upsert_session(sessions, agent_name, session_key, terminal_id, pid, mode)
    /\ store_ret' = [op |-> "create", agent_name |-> agent_name,
                     session_key |-> session_key, terminal_id |-> terminal_id,
                     pid |-> pid, mode |-> mode, status |-> "active",
                     existed |-> FindSession(sessions, agent_name, session_key) # 0,
                     id |-> FindSession(sessions', agent_name, session_key)]

\* StateBackend.update_agent_status: UPDATE ... SET status WHERE the key matches
update_agent_status(agent_name, session_key, status) ==
    /\ n_store_ops < MaxStoreOps
    /\ n_store_ops' = n_store_ops + 1
    /\ sessions' = [i \in 1..Len(sessions) |->
                        IF sessions[i].agent_name = agent_name
                           /\ sessions[i].session_key = session_key
                        THEN [sessions[i] EXCEPT !.status = status]
                        ELSE sessions[i]]
    /\ store_ret' = [NoStoreCall EXCEPT !.op = "update", !.agent_name = agent_name,
                                        !.session_key = session_key, !.status = status,
                                        !.existed = FindSession(sessions, agent_name, session_key) # 0]

\* StateBackend.get_agent_session_by_pane_id: the first row (fetchone) with
\* that terminal_id and status 'active', or 0 for None
get_agent_session_by_pane_id(pane_id) ==
    IF \E i \in 1..Len(sessions) :
            sessions[i].terminal_id = pane_id /\ sessions[i].status = "active"
    THEN LET first == CHOOSE i \in 1..Len(sessions) :
                /\ sessions[i].terminal_id = pane_id /\ sessions[i].status = "active"
                /\ \A j \in 1..(i - 1) :
                      ~(sessions[j].terminal_id = pane_id /\ sessions[j].status = "active")
         IN  sessions[first]
    ELSE [NoStoreCall EXCEPT !.op = "row"]

StoreInit == sessions = <<>> /\ store_ret = NoStoreCall /\ n_store_ops = 0

(***************************************************************************)
(* StateBackend under threads: every write runs inside                     *)
(* "with self._lock, self._transaction() as conn", the connection being    *)
(* the calling thread's (threading.local).                                 *)
(***************************************************************************)
Workers == 1..NWorkers
WorkerKey(t) == <<"k1", "k2", "k3", "k4">>[t]
NoConnection == 0

\* a single connection kept on the object and handed to every thread
thread_connection_shared(conn, count, t) == IF count = 0 THEN 1 ELSE count

\* _get_connection: the connection of the thread's threading.local, made
\* when the thread has none
thread_connection(conn, count, t) == IF conn[t] = NoConnection THEN count + 1 ELSE conn[t]

\* with self._lock: the thread takes the lock when it is free
AcquireLock ==
    /\ \E t \in Workers :
        /\ st_lock = 0
        /\ st_pc[t] \in {"start", "created"}
        /\ st_lock' = t
        /\ st_pc' = [st_pc EXCEPT ![t] = IF @ = "start" THEN "create" ELSE "log"]
    /\ UNCHANGED <<st_conn, st_used, n_conns>>
    /\ UNCHANGED <<confVars, baseVars, besides_threadVars>>

\* create_agent_session under the lock: the connection, the upsert, the
\* commit of _transaction, the release of the lock
WriteSessionLocked ==
    /\ \E t \in Workers :
        /\ st_lock = t
        /\ st_pc[t] = "create"
        /\ st_conn' = [st_conn EXCEPT ![t] = thread_connection(st_conn, n_conns, t)]
        /\ n_conns' = Max(n_conns, thread_connection(st_conn, n_conns, t))
        /\ st_used' = st_used \cup {<<thread_connection(st_conn, n_conns, t), t>>}
        /\ sessions' = upsert_session(sessions, "a1", WorkerKey(t), NoTerminal, 0,
                                      "interactive")
        /\ st_lock' = 0
        /\ st_pc' = [st_pc EXCEPT ![t] = "created"]
    /\ UNCHANGED <<store_ret, n_store_ops>>
    /\ UNCHANGED <<confVars, polVars, busVars, queryVars, streamVars, daemonVars, schemaVars,
                   approvalVars, factoryVars, wireVars, serverVars, besides_threadVars>>

\* log_event under the lock
WriteEventLocked ==
    /\ \E t \in Workers :
        /\ st_lock = t
        /\ st_pc[t] = "log"
        /\ st_conn' = [st_conn EXCEPT ![t] = thread_connection(st_conn, n_conns, t)]
        /\ n_conns' = Max(n_conns, thread_connection(st_conn, n_conns, t))
        /\ st_used' = st_used \cup {<<thread_connection(st_conn, n_conns, t), t>>}
        /\ event_log' = log_event(event_log, "t.a", JObj(<<<<"n", "u", "m">>>>,
                                                         <<JStr(<<Digits[t + 1]>>)>>),
                                  WorkerKey(t), NoAgent)
        /\ st_lock' = 0
        /\ st_pc' = [st_pc EXCEPT ![t] = "done"]
    /\ UNCHANGED <<files, now, db_attached, emit_req, emit_ret, n_emits, n_returned, n_logged>>
    /\ UNCHANGED <<confVars, polVars, queryVars, streamVars, storeVars, daemonVars, schemaVars,
                   approvalVars, factoryVars, wireVars, serverVars, besides_threadVars>>

ThreadsIdle ==
    /\ st_lock = 0
    /\ st_pc = [t \in Workers |-> "start"]
    /\ st_conn = [t \in Workers |-> NoConnection]
    /\ st_used = {}
    /\ n_conns = 0

(***************************************************************************)
(* WatcherFactory.build and its three candidate builders.                  *)
(***************************************************************************)
Systems == {"Linux", "Darwin", "Windows", "Unknown"}
Programs == {"inotifywait", "fswatch", "powershell"}
\* the directory the command is built for
WatchedDir == "events"

NoCommand == [runner |-> "None", args |-> <<>>, delimiter |-> ""]
WatchCommand(runner, args, delimiter) == [runner |-> runner, args |-> args, delimiter |-> delimiter]

\* _inotify_command: None unless inotifywait is on PATH and the system is Linux
_inotify_command(system, installed, directory, recursive) ==
    IF "inotifywait" \notin installed \/ system # "Linux"
    THEN NoCommand
    ELSE WatchCommand("inotifywait",
            <<"inotifywait", "-m">> \o (IF recursive THEN <<"-r">> ELSE <<>>)
                \o <<"-e", "modify,create,delete,move", "--format", "%w%f|%e", directory>>,
            "|")

\* _fswatch_command: None unless fswatch is on PATH and the system is Darwin
_fswatch_command(system, installed, directory, recursive) ==
    IF "fswatch" \notin installed \/ system # "Darwin"
    THEN NoCommand
    ELSE WatchCommand("fswatch",
            <<"fswatch", "-0", "--event", "Updated", "--event", "Created">>
                \o (IF recursive THEN <<"-r">> ELSE <<>>) \o <<directory>>,
            "NUL")

\* _powershell_command: None unless powershell is on PATH and the system is
\* Windows; the script is the fifth argument
_powershell_command(system, installed, directory, recursive) ==
    IF "powershell" \notin installed \/ system # "Windows"
    THEN NoCommand
    ELSE WatchCommand("powershell",
            <<"powershell", "-NoLogo", "-NoProfile", "-Command", "script">>, "LF")

\* a list of candidates that probes the Windows watcher first
candidates_reversed == <<"powershell", "fswatch", "inotifywait">>

\* build, lines 107-111: the candidates in the order they are tried
candidates == <<"inotifywait", "fswatch", "powershell">>

\* builder(directory, recursive) for the builder of that program
builder(program, system, installed, directory, recursive) ==
    CASE program = "inotifywait" -> _inotify_command(system, installed, directory, recursive)
      [] program = "fswatch" -> _fswatch_command(system, installed, directory, recursive)
      [] OTHER -> _powershell_command(system, installed, directory, recursive)

NoBuild == [outcome |-> "none", command |-> NoCommand, probed |-> <<>>]

\* the for loop of build from candidate i on; probed lists the programs
\* whose builder has been called
RECURSIVE build_loop(_, _, _, _, _, _)
build_loop(i, probed, system, installed, directory, recursive) ==
    IF i > Len(candidates)
    THEN [outcome |-> "WatcherNotAvailable", command |-> NoCommand, probed |-> probed]
    ELSE LET command == builder(candidates[i], system, installed, directory, recursive)
         IN  IF command # NoCommand
             THEN [outcome |-> "returned", command |-> command,
                   probed |-> Append(probed, candidates[i])]
             ELSE build_loop(i + 1, Append(probed, candidates[i]), system, installed,
                             directory, recursive)

\* WatcherFactory.build(directory, recursive)
build(system, installed, exists, directory, recursive) ==
    IF ~exists
    THEN [outcome |-> "ValueError", command |-> NoCommand, probed |-> <<>>]
    ELSE build_loop(1, <<>>, system, installed, directory, recursive)

WatcherIdle ==
    /\ w_system = "Linux"
    /\ w_installed = {}
    /\ w_exists = TRUE
    /\ w_recursive = FALSE
    /\ w_result = NoBuild

\* WatcherFactory.build called once on the platform drawn by Init
Build ==
    /\ w_result = NoBuild
    /\ w_result' = build(w_system, w_installed, w_exists, WatchedDir, w_recursive)
    /\ UNCHANGED <<w_system, w_installed, w_exists, w_recursive>>
    /\ UNCHANGED <<confVars, baseVars, besides_watcherVars>>

(***************************************************************************)
(* EventBus.stream(follow=True): the backlog, then the watch loop or the   *)
(* polling loop.                                                           *)
(***************************************************************************)
\* where the generator goes once the backlog is exhausted, event_bus.py
\* lines 129-146: the import, then factory.watch, whose first step is build
after_backlog(importable, system, installed) ==
    IF ~importable
    THEN "poll"
    ELSE IF build(system, installed, TRUE, WatchedDir, FALSE).outcome = "returned"
         THEN "watch"
         ELSE "raised"

\* the first next(): the events directory is listed
FollowStart ==
    /\ fol_pc = "idle"
    /\ fol_pc' = "backlog"
    /\ fol_pending' = sorted(DOMAIN files)
    /\ UNCHANGED <<fol_importable, fol_seen, fol_out>>
    /\ UNCHANGED <<confVars, baseVars, besides_followVars>>

\* one event of the backlog is yielded
FollowBacklog ==
    /\ fol_pc = "backlog"
    /\ fol_pending # <<>>
    /\ fol_out' = Append(fol_out, Head(fol_pending))
    /\ fol_pending' = Tail(fol_pending)
    /\ UNCHANGED <<fol_importable, fol_pc, fol_seen>>
    /\ UNCHANGED <<confVars, baseVars, besides_followVars>>

\* the backlog is exhausted: the watcher is imported and started, or the
\* polling loop takes the names present as last_seen
FollowWatch ==
    /\ fol_pc = "backlog"
    /\ fol_pending = <<>>
    /\ fol_pc' = after_backlog(fol_importable, w_system, w_installed)
    /\ fol_seen' = DOMAIN files
    /\ UNCHANGED <<fol_importable, fol_pending, fol_out>>
    /\ UNCHANGED <<confVars, baseVars, besides_followVars>>

\* the watch program reports a file created since it started, and the
\* event in it is yielded
WatchYield ==
    /\ fol_pc = "watch"
    /\ \E name \in DOMAIN files \ fol_seen :
            /\ fol_seen' = fol_seen \cup {name}
            /\ fol_out' = Append(fol_out, name)
    /\ UNCHANGED <<fol_importable, fol_pc, fol_pending>>
    /\ UNCHANGED <<confVars, baseVars, besides_followVars>>

\* one turn of the polling loop, lines 148-162: the names that are new
\* since the last turn are yielded in sorted order
PollTurn ==
    /\ fol_pc = "poll"
    /\ DOMAIN files # fol_seen
    /\ fol_out' = fol_out \o sorted(DOMAIN files \ fol_seen)
    /\ fol_seen' = DOMAIN files
    /\ UNCHANGED <<fol_importable, fol_pc, fol_pending>>
    /\ UNCHANGED <<confVars, baseVars, besides_followVars>>

FollowIdle ==
    /\ fol_importable = TRUE
    /\ fol_pc = "idle"
    /\ fol_pending = <<>>
    /\ fol_seen = {}
    /\ fol_out = <<>>
(***************************************************************************)
(* StateBackend.__init__: the schema of the database file and its          *)
(* migrations.  DDL statements and executescript run outside the           *)
(* transaction and are committed as they execute; the INSERT into          *)
(* schema_version opens a transaction that _transaction commits on exit.   *)
(***************************************************************************)
CURRENT_SCHEMA_VERSION == 1

\* _migrate_to_v1: the objects its script creates, in order
V1Script ==
    <<"agent_session", "idx_agent_session_name", "idx_agent_session_status",
      "tmux_pane", "idx_tmux_pane_session", "idx_tmux_pane_terminal", "idx_tmux_pane_status",
      "event_log", "idx_event_type", "idx_event_session", "idx_event_agent",
      "idx_event_created",
      "guidance", "idx_guidance_agent", "idx_guidance_status",
      "approval_settings">>

\* _apply_migrations: migrations = {1: self._migrate_to_v1}
migrations(version) == IF version = 1 THEN V1Script ELSE <<>>

Objects(script) == {script[i] : i \in 1..Len(script)}

\* SELECT MAX(version) FROM schema_version, 0 for no row, as a mutant reads
\* it that never finds a row
current_version_none(versions) == 0

\* SELECT MAX(version) FROM schema_version, 0 for no row
current_version(versions) ==
    IF versions = {} THEN 0 ELSE CHOOSE v \in versions : \A w \in versions : v >= w

NoStep == [version |-> 0, done |-> 0]
Snapshot == [objects |-> db_objects, versions |-> db_versions, rows |-> Len(sessions)]

\* _initialize_database, lines 65-81: the schema_version table is created
\* if absent, the version is read, and the migrations are entered or not
OpenBegin ==
    /\ open_pc = "closed"
    /\ n_opens < MaxOpens
    /\ n_opens' = n_opens + 1
    /\ open_pre' = Snapshot
    /\ db_objects' = db_objects \cup {"schema_version"}
    /\ open_txn' = {}
    /\ IF current_version(db_versions) < CURRENT_SCHEMA_VERSION
       THEN /\ open_pc' = "migrating"
            /\ open_step' = [version |-> current_version(db_versions) + 1, done |-> 0]
       ELSE /\ open_pc' = "committing"
            /\ open_step' = NoStep
    /\ UNCHANGED <<db_versions, n_migrations>>
    /\ UNCHANGED openRest

\* _migrate_to_v1: the next statement of the script, CREATE ... IF NOT EXISTS
MigrateStatement ==
    /\ open_pc = "migrating"
    /\ open_step.done < Len(migrations(open_step.version))
    /\ db_objects' = db_objects \cup {migrations(open_step.version)[open_step.done + 1]}
    /\ open_step' = [open_step EXCEPT !.done = @ + 1]
    /\ n_migrations' = IF open_step.done = 0 THEN n_migrations + 1 ELSE n_migrations
    /\ UNCHANGED <<db_versions, open_pc, open_txn, open_pre, n_opens>>
    /\ UNCHANGED openRest

\* _apply_migrations, lines 99-102: INSERT INTO schema_version; a version
\* that has a row violates the primary key, the exception leaves
\* _transaction through rollback and the constructor raises
MigrateRecord ==
    /\ open_pc = "migrating"
    /\ open_step.done = Len(migrations(open_step.version))
    /\ IF open_step.version \in db_versions \cup open_txn
       THEN /\ open_pc' = "closed"
            /\ open_txn' = {}
            /\ open_step' = NoStep
       ELSE /\ open_txn' = open_txn \cup {open_step.version}
            /\ IF open_step.version < CURRENT_SCHEMA_VERSION
               THEN /\ open_pc' = "migrating"
                    /\ open_step' = [version |-> open_step.version + 1, done |-> 0]
               ELSE /\ open_pc' = "committing"
                    /\ open_step' = NoStep
    /\ UNCHANGED <<db_objects, db_versions, open_pre, n_opens, n_migrations>>
    /\ UNCHANGED openRest

\* _transaction: conn.commit() on leaving the with block
OpenCommit ==
    /\ open_pc = "committing"
    /\ db_versions' = db_versions \cup open_txn
    /\ open_txn' = {}
    /\ open_pc' = "open"
    /\ UNCHANGED <<db_objects, open_step, open_pre, n_opens, n_migrations>>
    /\ UNCHANGED openRest

\* the process ends, by a crash at any point of the construction or after
\* it: what was not committed is gone
ProcessExit ==
    /\ open_pc # "closed"
    /\ open_pc' = "closed"
    /\ open_txn' = {}
    /\ open_step' = NoStep
    /\ UNCHANGED <<db_objects, db_versions, open_pre, n_opens, n_migrations>>
    /\ UNCHANGED openRest

\* an opened store on a migrated file, for the behaviours that start there
SchemaIdle ==
    /\ db_objects = Objects(V1Script) \cup {"schema_version"}
    /\ db_versions = {CURRENT_SCHEMA_VERSION}
    /\ open_pc = "open"
    /\ open_txn = {}
    /\ open_step = NoStep
    /\ open_pre = [objects |-> {}, versions |-> {}, rows |-> 0]
    /\ n_opens = 0
    /\ n_migrations = 0

(***************************************************************************)
(* StateBackend: the approval_settings table.                              *)
(***************************************************************************)
ApprovalModes == {"auto", "ask", "deny", "plan-review"}

\* the index of the agent's row, or 0
FindApproval(rows, agent_name) ==
    IF \E i \in 1..Len(rows) : rows[i].agent_name = agent_name
    THEN CHOOSE i \in 1..Len(rows) : rows[i].agent_name = agent_name
    ELSE 0

\* INSERT OR IGNORE in the place of the upsert: a row the agent has stays
upsert_approval_ignore(rows, agent_name, mode) ==
    IF FindApproval(rows, agent_name) = 0
    THEN Append(rows, [agent_name |-> agent_name, mode |-> mode])
    ELSE rows

\* INSERT INTO approval_settings ... ON CONFLICT(agent_name) DO UPDATE SET mode
upsert_approval(rows, agent_name, mode) ==
    IF FindApproval(rows, agent_name) = 0
    THEN Append(rows, [agent_name |-> agent_name, mode |-> mode])
    ELSE [rows EXCEPT ![FindApproval(rows, agent_name)].mode = mode]

NoApprovalCall == [op |-> "none", agent_name |-> NoAgent, mode |-> "ask",
                   outcome |-> "none", before |-> <<>>]

\* StateBackend.set_approval_mode; db_fails tells whether the transaction
\* fails (it is rolled back and the exception reaches the caller)
set_approval_mode(agent_name, mode, db_fails) ==
    /\ n_appr_ops < MaxApprovalOps
    /\ n_appr_ops' = n_appr_ops + 1
    /\ IF mode \notin {"auto", "ask", "deny", "plan-review"} \/ db_fails
       THEN /\ appr_ret' = [op |-> "set", agent_name |-> agent_name, mode |-> mode,
                            outcome |-> "raised", before |-> approval_settings]
            /\ UNCHANGED <<approval_settings, appr_history>>
       ELSE /\ approval_settings' = upsert_approval(approval_settings, agent_name, mode)
            /\ appr_history' = Append(appr_history, [agent_name |-> agent_name, mode |-> mode])
            /\ appr_ret' = [op |-> "set", agent_name |-> agent_name, mode |-> mode,
                            outcome |-> "returned", before |-> approval_settings]

\* StateBackend.get_approval_mode: the mode of the agent's row, 'ask' for none
get_approval_mode(agent_name) ==
    /\ n_appr_ops < MaxApprovalOps
    /\ n_appr_ops' = n_appr_ops + 1
    /\ appr_ret' = [op |-> "get", agent_name |-> agent_name,
                    mode |-> IF FindApproval(approval_settings, agent_name) = 0 THEN "ask"
                             ELSE approval_settings[FindApproval(approval_settings,
                                                                 agent_name)].mode,
                    outcome |-> "returned", before |-> approval_settings]
    /\ UNCHANGED <<approval_settings, appr_history>>

ApprovalIdle ==
    /\ approval_settings = <<>>
    /\ appr_ret = NoApprovalCall
    /\ appr_history = <<>>
    /\ n_appr_ops = 0

(***************************************************************************)
(* database.log_event: the insert into logs and agents, retried while the  *)
(* database is locked.                                                     *)
(***************************************************************************)
\* range(5) of the retry loop
Attempts == 5
\* what one attempt meets: no error, OperationalError "database is locked",
\* or another OperationalError
AttemptOutcomes == {"ok", "locked", "other"}
NoTask == 0

\* lines 33-39: a row appended to logs, the agent's row replaced by an
\* ACTIVE one that keeps its last_task_id
InsertLog(logs, input) == Append(logs, [agent_name |-> input.agent_name,
                                        message |-> input.message, type |-> input.type])
ReplaceAgent(agents, name) ==
    LET last_task_id == IF name \in DOMAIN agents THEN agents[name].last_task_id ELSE NoTask
    IN  [n \in DOMAIN agents \cup {name} |->
            IF n = name THEN [status |-> "ACTIVE", last_task_id |-> last_task_id]
            ELSE agents[n]]

\* a handler that goes on to the next attempt on every locked error
retries_every_lock(outcome, attempt) == outcome = "locked"

\* lines 44-46: whether the handler sleeps and continues
retries(outcome, attempt) == outcome = "locked" /\ attempt < 4

\* time.sleep(0.1 * (attempt + 1)), in tenths of a second
backoff(attempt) == attempt + 1

\* one turn of the for loop on what the attempt meets
LogEventAttempt ==
    /\ rt_pc = "loop"
    /\ \E outcome \in AttemptOutcomes :
        IF outcome = "ok"
        THEN /\ rt_logs' = InsertLog(rt_logs, rt_input)
             /\ rt_agents' = ReplaceAgent(rt_agents, rt_input.agent_name)
             /\ rt_pc' = "returned"
             /\ UNCHANGED <<rt_attempt, rt_sleeps, rt_error>>
        ELSE IF retries(outcome, rt_attempt)
        THEN /\ rt_sleeps' = Append(rt_sleeps, backoff(rt_attempt))
             /\ rt_attempt' = rt_attempt + 1
             \* the for loop ends when range(5) is used up
             /\ rt_pc' = IF rt_attempt + 1 < Attempts THEN "loop" ELSE "returned"
             /\ UNCHANGED <<rt_error, rt_logs, rt_agents>>
        ELSE /\ rt_pc' = "raised"
             /\ rt_error' = outcome
             /\ UNCHANGED <<rt_attempt, rt_sleeps, rt_logs, rt_agents>>
    /\ UNCHANGED rt_input
    /\ UNCHANGED <<confVars, baseVars, besides_retryVars>>

\* log_event is called
LogEventCall ==
    /\ rt_pc = "call"
    /\ rt_pc' = "loop"
    /\ UNCHANGED <<rt_input, rt_attempt, rt_sleeps, rt_error, rt_logs, rt_agents>>
    /\ UNCHANGED <<confVars, baseVars, besides_retryVars>>

RetryIdle ==
    /\ rt_input = [agent_name |-> "a1", message |-> "m", type |-> "INFO"]
    /\ rt_pc = "call"
    /\ rt_attempt = 0
    /\ rt_sleeps = <<>>
    /\ rt_error = "none"
    /\ rt_logs = <<>>
    /\ rt_agents = <<>>
(***************************************************************************)
(* Debouncer and WatcherFactory.normalize_output.                          *)
(***************************************************************************)
\* the characters of the event kinds the watch programs print
KindChars(word) ==
    CASE word = "modify" -> <<"m", "o", "d", "i", "f", "y">>
      [] word = "modified" -> <<"m", "o", "d", "i", "f", "i", "e", "d">>
      [] word = "changed" -> <<"c", "h", "a", "n", "g", "e", "d">>
      [] word = "updated" -> <<"u", "p", "d", "a", "t", "e", "d">>
      [] word = "create" -> <<"c", "r", "e", "a", "t", "e">>
      [] word = "created" -> <<"c", "r", "e", "a", "t", "e", "d">>
      [] word = "delete" -> <<"d", "e", "l", "e", "t", "e">>
      [] word = "deleted" -> <<"d", "e", "l", "e", "t", "e", "d">>
      [] word = "moved_to" -> <<"m", "o", "v", "e", "d", "_", "t", "o">>
      [] word = "moved_from" -> <<"m", "o", "v", "e", "d", "_", "f", "r", "o", "m">>
      [] word = "MODIFY" -> <<"M", "O", "D", "I", "F", "Y">>
      [] word = "Created" -> <<"C", "r", "e", "a", "t", "e", "d">>
      [] word = "MOVED_FROM" -> <<"M", "O", "V", "E", "D", "_", "F", "R", "O", "M">>
      [] word = "ATTRIB" -> <<"A", "T", "T", "R", "I", "B">>
      [] word = "attrib" -> <<"a", "t", "t", "r", "i", "b">>

UpperCase == <<"A", "B", "C", "D", "E", "F", "I", "M", "O", "R", "T", "V", "Y">>
LowerCase == <<"a", "b", "c", "d", "e", "f", "i", "m", "o", "r", "t", "v", "y">>
\* str.lower()
lower(s) ==
    [i \in 1..Len(s) |->
        IF \E k \in 1..Len(UpperCase) : UpperCase[k] = s[i]
        THEN LowerCase[CHOOSE k \in 1..Len(UpperCase) : UpperCase[k] = s[i]]
        ELSE s[i]]

\* length of the leading run of characters other than d
RECURSIVE FieldLen(_, _)
FieldLen(s, d) == IF s = <<>> \/ Head(s) = d THEN 0 ELSE 1 + FieldLen(Tail(s), d)

\* str.split(d) for a one-character separator d
RECURSIVE split_on(_, _)
split_on(s, d) ==
    LET n == FieldLen(s, d)
    IN  IF n = Len(s) THEN <<s>>
        ELSE <<SubSeq(s, 1, n)>> \o split_on(SubSeq(s, n + 2, Len(s)), d)

\* str.split(None, 1): the first word and the rest without its leading spaces
split_max1(s) ==
    LET t == lstrip(s)
        n == WordLen(t)
        rest == lstrip(SubSeq(t, n + 1, Len(t)))
    IN  IF t = <<>> THEN <<>>
        ELSE IF rest = <<>> THEN <<SubSeq(t, 1, n)>>
        ELSE <<SubSeq(t, 1, n), rest>>

\* normalize_output, lines 212-225: kind_map.get(kind.lower(), kind.lower())
kind_map(kind) ==
    CASE lower(kind) \in {KindChars("modify"), KindChars("modified"), KindChars("changed"),
                          KindChars("updated")} -> KindChars("modified")
      [] lower(kind) \in {KindChars("create"), KindChars("created"), KindChars("moved_to")}
            -> KindChars("created")
      [] lower(kind) \in {KindChars("delete"), KindChars("deleted"), KindChars("moved_from")}
            -> KindChars("deleted")
      [] OTHER -> lower(kind)

\* Debouncer.should_emit: the key of an event, f"{path}:{kind}"
debounce_key(path, kind) == path \o <<":">> \o kind

\* self._last_events[key] of the defaultdict(float)
last_time(last, key) == IF key \in DOMAIN last THEN last[key] ELSE 0

\* Debouncer.should_emit(path, kind) at time t: the answer and _last_events
\* after the call; reading the defaultdict enters the key
should_emit(last, path, kind, t, window) ==
    LET key == debounce_key(path, kind)
        accept == t - last_time(last, key) >= window
    IN  [emit |-> accept,
         last |-> [k \in DOMAIN last \cup {key} |->
                    IF k = key THEN (IF accept THEN t ELSE last_time(last, key))
                    ELSE last[k]]]

NoEvent == [path |-> <<>>, kind |-> <<>>, timestamp |-> 0]
NormNone(last) == [outcome |-> "None", event |-> NoEvent, last |-> last]

\* an except clause that lets ValueError through
caught_index_only(exception) == exception = "IndexError"

\* line 237: except (ValueError, IndexError)
caught(exception) == exception \in {"ValueError", "IndexError"}

\* what leaves normalize_output when the try block raises
after_raise(exception, last) ==
    IF caught(exception) THEN NormNone(last)
    ELSE [outcome |-> exception, event |-> NoEvent, last |-> last]

\* WatcherFactory.normalize_output(raw, delimiter) at time t; delimiter is
\* one character or the empty string, on which str.split raises ValueError
normalize_output(raw, delimiter, last, t, window) ==
    IF raw = <<>> \/ strip(raw) = <<>> THEN NormNone(last)
    ELSE IF delimiter = "" THEN after_raise("ValueError", last)
    ELSE LET first == split_on(strip(raw), delimiter)
             parts == IF Len(first) < 2 THEN split_max1(strip(raw)) ELSE first
         IN  IF Len(parts) < 2 THEN NormNone(last)
             ELSE LET path == strip(parts[1])
                      kind == strip(parts[2])
                      verdict == should_emit(last, path, kind_map(kind), t, window)
                  IN  IF path = <<>> \/ Len(path) < 2 THEN NormNone(last)
                      ELSE IF ~verdict.emit
                      THEN NormNone(verdict.last)
                      ELSE [outcome |-> "event",
                            event |-> [path |-> path, kind |-> kind_map(kind), timestamp |-> t],
                            last |-> verdict.last]

\* the clock advances
DebTick ==
    /\ deb_now < MaxDebClock
    /\ deb_now' = deb_now + 1
    /\ UNCHANGED <<deb_last, deb_hist, deb_epoch, nz_call, nz_ret, n_norm>>
    /\ UNCHANGED <<confVars, baseVars, besides_normVars>>

DebPaths == {<<"a">>, <<"a", ":", "b">>}
DebKinds == {<<"c">>, <<"b", ":", "c">>}

\* debouncer.should_emit(path, kind)
ShouldEmit ==
    /\ Len(deb_hist) < MaxDebCalls
    /\ \E path \in DebPaths, kind \in DebKinds :
        LET verdict == should_emit(deb_last, path, kind, deb_now, DebounceWindow)
        IN  /\ deb_last' = verdict.last
            /\ deb_hist' = Append(deb_hist, [path |-> path, kind |-> kind, t |-> deb_now,
                                             emit |-> verdict.emit, epoch |-> deb_epoch])
    /\ UNCHANGED <<deb_now, deb_epoch, nz_call, nz_ret, n_norm>>
    /\ UNCHANGED <<confVars, baseVars, besides_normVars>>

\* debouncer.reset(): self._last_events.clear()
DebReset ==
    /\ deb_epoch < 1
    /\ deb_last' = <<>>
    /\ deb_epoch' = deb_epoch + 1
    /\ UNCHANGED <<deb_now, deb_hist, nz_call, nz_ret, n_norm>>
    /\ UNCHANGED <<confVars, baseVars, besides_normVars>>

RawAlphabet == {"a", "|", " "}
\* lines of the watch programs: every short text, and a path with each kind
KindSpellings ==
    {"modify", "modified", "changed", "updated", "create", "created", "delete", "deleted",
     "moved_to", "moved_from", "MODIFY", "Created", "MOVED_FROM", "ATTRIB"}
RawLines ==
    SeqsOver(RawAlphabet, 0, MaxRawLen)
    \cup {<<"a", "a", "|">> \o KindChars(w) : w \in KindSpellings}
    \cup {<<"a", "a", " ">> \o KindChars(w) : w \in {"modify", "ATTRIB"}}
Delimiters == {"|", "\n", ""}

NoNormCall == [raw |-> <<>>, delimiter |-> "|"]

\* factory.normalize_output(raw, delimiter)
Normalize ==
    /\ n_norm < MaxNormCalls
    /\ n_norm' = n_norm + 1
    /\ \E raw \in RawLines, delimiter \in Delimiters :
        LET ret == normalize_output(raw, delimiter, deb_last, deb_now, DebounceWindow)
        IN  /\ nz_call' = [raw |-> raw, delimiter |-> delimiter]
            /\ nz_ret' = [outcome |-> ret.outcome, event |-> ret.event]
            /\ deb_last' = ret.last
    /\ UNCHANGED <<deb_now, deb_hist, deb_epoch>>
    /\ UNCHANGED <<confVars, baseVars, besides_normVars>>

NormInit ==
    /\ deb_last = <<>>
    /\ deb_now = DebounceWindow
    /\ deb_hist = <<>>
    /\ deb_epoch = 0
    /\ nz_call = NoNormCall
    /\ nz_ret = [outcome |-> "None", event |-> NoEvent]
    /\ n_norm = 0
(***************************************************************************)
(* Two StateBackend(db_path) constructions on one fresh database file, in  *)
(* two threads or two processes.  Each handle has its own self._lock       *)
(* (state_backend.py:33) and its own connection; the file's write lock is  *)
(* SQLite's.                                                               *)
(***************************************************************************)
Handles == {"h1", "h2"}
NoHandle == "None"

\* _initialize_database, lines 65-81, up to the test of the version: the
\* handle's own lock is taken, schema_version is created if absent, and
\* the version is read
RaceBegin(h) ==
    /\ rc_pc[h] = "new"
    /\ rc_locked' = [rc_locked EXCEPT ![h] = @ \cup {"initialize"}]
    /\ rc_objects' = rc_objects \cup {"schema_version"}
    /\ IF current_version(rc_versions) < CURRENT_SCHEMA_VERSION
       THEN /\ rc_pc' = [rc_pc EXCEPT ![h] = "migrating"]
            /\ rc_step' = [rc_step EXCEPT ![h] = current_version(rc_versions) + 1]
       ELSE /\ rc_pc' = [rc_pc EXCEPT ![h] = "committing"]
            /\ UNCHANGED rc_step
    /\ UNCHANGED <<rc_versions, rc_done, rc_txn, rc_writer, rc_applied, n_rc_writes>>

\* migrations[version](conn): the next statement of the script, a
\* CREATE ... IF NOT EXISTS committed as it executes
RaceMigrate(h) ==
    /\ rc_pc[h] = "migrating"
    /\ rc_done[h] < Len(migrations(rc_step[h]))
    /\ rc_objects' = rc_objects \cup {migrations(rc_step[h])[rc_done[h] + 1]}
    /\ rc_applied' = IF rc_done[h] = 0 THEN [rc_applied EXCEPT ![rc_step[h]] = @ + 1]
                     ELSE rc_applied
    /\ rc_done' = [rc_done EXCEPT ![h] = @ + 1]
    /\ rc_pc' = [rc_pc EXCEPT ![h] = IF rc_done[h] + 1 = Len(migrations(rc_step[h]))
                                     THEN "recording" ELSE "migrating"]
    /\ UNCHANGED <<rc_versions, rc_step, rc_txn, rc_writer, rc_locked, n_rc_writes>>

\* INSERT INTO schema_version: it waits while another connection holds the
\* write lock; a version that has a row violates the primary key, and the
\* wait that exceeds the busy timeout ends in "database is locked"; both
\* leave the constructor through rollback
RaceRecord(h) ==
    /\ rc_pc[h] = "recording"
    /\ IF rc_writer \notin {NoHandle, h}
       THEN \* timeout=30.0 has elapsed
            /\ rc_pc' = [rc_pc EXCEPT ![h] = "failed"]
            /\ UNCHANGED <<rc_txn, rc_writer, rc_step>>
       ELSE IF rc_step[h] \in rc_versions
       THEN /\ rc_pc' = [rc_pc EXCEPT ![h] = "failed"]
            /\ UNCHANGED <<rc_txn, rc_writer, rc_step>>
       ELSE /\ rc_txn' = [rc_txn EXCEPT ![h] = @ \cup {rc_step[h]}]
            /\ rc_writer' = h
            /\ IF rc_step[h] < CURRENT_SCHEMA_VERSION
               THEN /\ rc_pc' = [rc_pc EXCEPT ![h] = "migrating"]
                    /\ rc_step' = [rc_step EXCEPT ![h] = @ + 1]
               ELSE /\ rc_pc' = [rc_pc EXCEPT ![h] = "committing"]
                    /\ UNCHANGED rc_step
    /\ rc_done' = [rc_done EXCEPT ![h] = 0]
    /\ UNCHANGED <<rc_objects, rc_versions, rc_applied, rc_locked, n_rc_writes>>

\* _transaction: conn.commit() on leaving the with block
RaceCommit(h) ==
    /\ rc_pc[h] = "committing"
    /\ rc_versions' = rc_versions \cup rc_txn[h]
    /\ rc_txn' = [rc_txn EXCEPT ![h] = {}]
    /\ rc_writer' = IF rc_writer = h THEN NoHandle ELSE rc_writer
    /\ rc_pc' = [rc_pc EXCEPT ![h] = "open"]
    /\ UNCHANGED <<rc_objects, rc_step, rc_done, rc_applied, rc_locked, n_rc_writes>>

\* a write method of an opened handle, e.g. log_event, line 344:
\* "with self._lock, self._transaction() as conn"
RaceWrite(h) ==
    /\ rc_pc[h] = "open"
    /\ rc_writer = NoHandle
    /\ n_rc_writes < MaxRaceWrites
    /\ n_rc_writes' = n_rc_writes + 1
    /\ rc_locked' = [rc_locked EXCEPT ![h] = @ \cup {"write"}]
    /\ UNCHANGED <<rc_objects, rc_versions, rc_pc, rc_step, rc_done, rc_txn, rc_writer, rc_applied>>

RaceInit ==
    /\ rc_objects = {}
    /\ rc_versions = {}
    /\ rc_pc = [h \in Handles |-> "new"]
    /\ rc_step = [h \in Handles |-> 0]
    /\ rc_done = [h \in Handles |-> 0]
    /\ rc_txn = [h \in Handles |-> {}]
    /\ rc_writer = NoHandle
    /\ rc_applied = [v \in 1..CURRENT_SCHEMA_VERSION |-> 0]
    /\ rc_locked = [h \in Handles |-> {}]
    /\ n_rc_writes = 0
(***************************************************************************)
(* LikuDaemon: the sandbox handlers, the SandboxFactory and the two        *)
(* backends.                                                               *)
(***************************************************************************)
NoCall == [method |-> "none", mode |-> "none", resource_id |-> 0, command |-> <<>>]
Call(method, mode, resource_id, command) ==
    [method |-> method, mode |-> mode, resource_id |-> resource_id, command |-> command]

NoRequest == [action |-> "none", agent_name |-> NoAgent, pane_id |-> 0, keys |-> <<>>,
              owner |-> NoAgent]
\* a request as received, and the owner the handler resolved for it
Request(action, agent_name, pane_id, keys, owner) ==
    [action |-> action, agent_name |-> agent_name, pane_id |-> pane_id, keys |-> keys,
     owner |-> owner]

NoResponse == [status |-> "none", error |-> "none", agent_name |-> NoAgent, keys |-> <<>>,
               pane_id |-> 0]
OkResponse(pane_id) == [NoResponse EXCEPT !.status = "ok", !.pane_id = pane_id]
\* {"status": "error", "error": "Missing ..."}
MissingResponse == [NoResponse EXCEPT !.status = "error", !.error = "missing"]
\* "Command denied by security policy for agent '<agent_name>': <keys>"
DeniedResponse(agent_name, keys) ==
    [NoResponse EXCEPT !.status = "error", !.error = "denied",
                       !.agent_name = agent_name, !.keys = keys]
\* "Failed to ... sandbox resource: <e>", from the handler's except clause
FailedResponse == [NoResponse EXCEPT !.status = "error", !.error = "failed"]
\* _handle_client, except Exception: {"status": "error", "error": str(e)}
ExceptionResponse == [NoResponse EXCEPT !.status = "error", !.error = "exception"]

\* self.agent_configs.get(agent_name, {}) if agent_name else {}
ConfigOf(agent_name) ==
    IF agent_name # NoAgent /\ agent_name \in DOMAIN agent_configs
    THEN agent_configs[agent_name]
    ELSE AgentConf(FALSE, NoPolicies)

\* SandboxFactory.get_sandbox: the mode of the configuration, tmux by default
sandbox_mode(agent_config) ==
    IF PoliciesOf(agent_config).sandbox_mode = "unset" THEN "tmux"
    ELSE PoliciesOf(agent_config).sandbox_mode

\* SandboxFactory.get_sandbox: the backend returned, cached or constructed,
\* or "raise" for the ValueError of an unsupported mode
get_sandbox(agent_config) ==
    IF sandbox_mode(agent_config) \in _instances THEN sandbox_mode(agent_config)
    ELSE IF sandbox_mode(agent_config) \in {"docker", "tmux"} THEN sandbox_mode(agent_config)
    ELSE "raise"

\* the policies of agent.json, when the file exists, parses and has the key
NoJson == [has_policies |-> FALSE, policies |-> NoPolicies]
AgentJsonChoices ==
    {NoJson,
     [has_policies |-> TRUE, policies |-> Policies(FALSE, {}, "docker")],
     [has_policies |-> TRUE, policies |-> Policies(TRUE, {<<"r">>}, "unset")]}

\* dict.update: the keys of agent.json take precedence
MergePolicies(policies, agent_json) ==
    Policies(policies.has_allowed \/ agent_json.has_allowed,
             IF agent_json.has_allowed THEN agent_json.allowed_commands
             ELSE policies.allowed_commands,
             IF agent_json.sandbox_mode # "unset" THEN agent_json.sandbox_mode
             ELSE policies.sandbox_mode)

\* _create_sandbox_resource, lines 403-417: the configuration handed to the
\* factory and to sandbox.create
MergedConfig(agent_name, agent_json) ==
    IF agent_json.has_policies
    THEN AgentConf(TRUE, MergePolicies(PoliciesOf(ConfigOf(agent_name)), agent_json.policies))
    ELSE ConfigOf(agent_name)

\* the same lines: dict.copy() is shallow, so the update of a "policies"
\* mapping the loaded configuration has lands in self.agent_configs as well
ConfigsAfterMerge(agent_name, agent_json) ==
    IF /\ agent_json.has_policies
       /\ agent_name \in DOMAIN agent_configs
       /\ agent_configs[agent_name].has_policies
    THEN [agent_configs EXCEPT ![agent_name] = MergedConfig(agent_name, agent_json)]
    ELSE agent_configs

\* names and ids as JSON text
NameChars(name) ==
    CASE name = "a1" -> <<"a", "1">>
      [] name = "a2" -> <<"a", "2">>
      [] name = "k1" -> <<"k", "1">>
      [] name = "k2" -> <<"k", "2">>
      [] OTHER -> <<"u", "n", "k", "n", "o", "w", "n">>
IdChars(id) == <<"%", Digits[id + 1]>>
K_agent_name == <<"a", "g", "e", "n", "t", "_", "n", "a", "m", "e">>
K_pane_id == <<"p", "a", "n", "e", "_", "i", "d">>
K_session == <<"s", "e", "s", "s", "i", "o", "n">>
K_command == <<"c", "o", "m", "m", "a", "n", "d">>

\* TmuxManager.create_pane and kill_pane: the payloads of agent.spawn and agent.kill
SpawnPayload(agent_name, pane_id, session) ==
    PyDict(JObj(<<K_agent_name, K_pane_id, K_session, K_command>>,
                <<JStr(NameChars(agent_name)), JStr(IdChars(pane_id)),
                  JStr(NameChars(session)), JNull>>))
KillPayload(agent_name, pane_id) ==
    PyDict(JObj(<<K_agent_name, K_pane_id>>,
                <<JStr(NameChars(agent_name)), JStr(IdChars(pane_id))>>))

\* what the tool behind a backend does to a call: "ok", or "error" (the call
\* raises); the tools are installed, so that the backends can be constructed
ToolOutcomes == {"ok", "error"}

\* the resource exists in the backend of that mode
Holds(mode, resource_id) ==
    /\ resource_id \in DOMAIN resources
    /\ resources[resource_id].mode = mode
    /\ resources[resource_id].alive

\* backends whose calls return whatever the resource
CanReturn_any(method, mode, resource_id) == TRUE

\* can the call return normally: a backend drives the resources it holds;
\* DockerSandbox.kill swallows NotFound
CanReturn(method, mode, resource_id) ==
    \/ method = "create"
    \/ Holds(mode, resource_id)
    \/ method = "kill" /\ mode = "docker"

\* the part the four handlers share: get_sandbox on the configuration, then
\* the backend call inside try/except.  agent_name is the agent handed to
\* the backend.  The tmux backend emits agent.spawn and agent.kill, and the
\* store takes the row.
Drive(method, agent_config, agent_name, session_key, resource_id, command, tool) ==
    LET mode == get_sandbox(agent_config)
    IN  /\ tool = "ok" => (mode # "raise" /\ CanReturn(method, mode, resource_id))
        /\ IF mode = "raise"
           THEN \* ValueError, raised outside the handler's try
                /\ response' = ExceptionResponse
                /\ backend_call' = NoCall
                /\ UNCHANGED <<_instances, resources, busVars>>
           ELSE /\ _instances' = _instances \cup {mode}
                /\ backend_call' = Call(method, mode, resource_id, command)
                /\ IF tool = "error"
                   THEN /\ response' = FailedResponse
                        /\ UNCHANGED <<resources, busVars>>
                   ELSE /\ response' = OkResponse(resource_id)
                        /\ resources' =
                              IF method = "create"
                              THEN [r \in DOMAIN resources \cup {resource_id} |->
                                        IF r = resource_id
                                        THEN [agent_name |-> agent_name, mode |-> mode,
                                              alive |-> TRUE]
                                        ELSE resources[r]]
                              ELSE IF method = "kill" /\ Holds(mode, resource_id)
                              THEN [resources EXCEPT ![resource_id].alive = FALSE]
                              ELSE resources
                        /\ IF mode = "tmux" /\ method = "create"
                           THEN emit("agent.spawn",
                                     SpawnPayload(agent_name, resource_id, session_key),
                                     NoKey, NoAgent, FALSE)
                           ELSE IF mode = "tmux" /\ method = "kill"
                           THEN emit("agent.kill", KillPayload(agent_name, resource_id),
                                     NoKey, NoAgent, FALSE)
                           ELSE UNCHANGED busVars

\* the agent of the resource's recorded session, or None
OwnerOf(pane_id) == get_agent_session_by_pane_id(pane_id).agent_name

\* the id the backend gives the next resource
NextResourceId == Cardinality(DOMAIN resources) + 1

\* LikuDaemon._create_sandbox_resource
_create_sandbox_resource(agent_name, session_key, agent_json, tool) ==
    /\ n_requests < MaxRequests
    /\ n_requests' = n_requests + 1
    /\ request' = Request("create_pane", agent_name, 0, <<>>, NoAgent)
    /\ IF agent_name = NoAgent \/ session_key = NoKey
       THEN /\ response' = MissingResponse
            /\ backend_call' = NoCall
            /\ UNCHANGED <<agent_configs, _instances, resources, busVars>>
       ELSE /\ Cardinality(DOMAIN resources) < MaxResources
            /\ agent_configs' = ConfigsAfterMerge(agent_name, agent_json)
            /\ Drive("create", MergedConfig(agent_name, agent_json), agent_name,
                     session_key, NextResourceId, <<>>, tool)
    /\ UNCHANGED global_policies

\* LikuDaemon._send_keys
_send_keys(pane_id, keys, tool) ==
    /\ n_requests < MaxRequests
    /\ n_requests' = n_requests + 1
    /\ request' = Request("send_keys", NoAgent, pane_id, keys,
                          IF pane_id = 0 \/ keys = <<>> THEN NoAgent ELSE OwnerOf(pane_id))
    /\ IF pane_id = 0 \/ keys = <<>>
       THEN /\ response' = MissingResponse
            /\ backend_call' = NoCall
            /\ UNCHANGED <<_instances, resources, busVars>>
       ELSE LET agent_name == OwnerOf(pane_id)
                allowed == _is_command_allowed(agent_name, keys)
            IN  IF allowed = "raise"
                THEN \* IndexError, outside any try of the handler
                     /\ response' = ExceptionResponse
                     /\ backend_call' = NoCall
                     /\ UNCHANGED <<_instances, resources, busVars>>
                ELSE IF allowed = "deny"
                THEN /\ response' = DeniedResponse(agent_name, keys)
                     /\ backend_call' = NoCall
                     /\ UNCHANGED <<_instances, resources, busVars>>
                ELSE Drive("execute", ConfigOf(agent_name), agent_name, NoKey,
                           pane_id, keys, tool)
    /\ UNCHANGED confVars

\* LikuDaemon._kill_sandbox_resource and _capture_sandbox_output
DriveRequest(action, method, pane_id, tool) ==
    /\ n_requests < MaxRequests
    /\ n_requests' = n_requests + 1
    /\ request' = Request(action, NoAgent, pane_id, <<>>,
                          IF pane_id = 0 THEN NoAgent ELSE OwnerOf(pane_id))
    /\ IF pane_id = 0
       THEN /\ response' = MissingResponse
            /\ backend_call' = NoCall
            /\ UNCHANGED <<_instances, resources, busVars>>
       ELSE Drive(method, ConfigOf(OwnerOf(pane_id)), OwnerOf(pane_id), NoKey,
                  pane_id, <<>>, tool)
    /\ UNCHANGED confVars

_kill_sandbox_resource(pane_id, tool) == DriveRequest("kill_pane", "kill", pane_id, tool)
_capture_sandbox_output(pane_id, tool) == DriveRequest("capture_pane", "capture", pane_id, tool)

DaemonIdle ==
    /\ _instances = {}
    /\ resources = <<>>
    /\ request = NoRequest
    /\ response = NoResponse
    /\ backend_call = NoCall
    /\ n_requests = 0


\* ---------------------------------------------------------------------------
\* create_pane, call by call: what each call to the tool behind the backend
\* does.  tmux: split-window, then list-panes.  docker: images.pull, then
\* containers.run, then container.top.
CreateSteps ==
    [split : {"ok", "error"}, listed : {"found", "missing"},
     pull : {"ok", "error"}, run : {"ok", "error"}, top : {"ok", "error"}]

\* TmuxManager.create_pane: split-window makes the pane; list_panes looks it
\* up (it returns [] when list-panes fails), and only a pane that was found is
\* announced and returned
create_pane(steps) ==
    IF steps.split = "error"
    THEN [created |-> FALSE, emitted |-> FALSE, returns |-> "raise"]
    ELSE IF steps.listed = "found"
    THEN [created |-> TRUE, emitted |-> TRUE, returns |-> "pane"]
    ELSE [created |-> TRUE, emitted |-> FALSE, returns |-> "None"]

\* TmuxSandbox.create: pane.pane_id of None raises AttributeError
tmux_create(steps) ==
    LET pane == create_pane(steps)
    IN  [created |-> pane.created, emitted |-> pane.emitted,
         returns |-> IF pane.returns = "pane" THEN "resource" ELSE "raise"]

\* DockerSandbox.create: every exception is logged and raised again; top()
\* is called on the container that run() has started
docker_create(steps) ==
    IF steps.pull = "error" \/ steps.run = "error"
    THEN [created |-> FALSE, emitted |-> FALSE, returns |-> "raise"]
    ELSE [created |-> TRUE, emitted |-> FALSE,
          returns |-> IF steps.top = "ok" THEN "resource" ELSE "raise"]

\* sandbox.create of the backend of that mode
sandbox_create(mode, steps) ==
    IF mode = "tmux" THEN tmux_create(steps) ELSE docker_create(steps)

\* _create_sandbox_resource, lines 416-427, call by call
DriveCreate(agent_config, agent_name, session_key, resource_id, steps) ==
    LET mode == get_sandbox(agent_config)
        made == sandbox_create(mode, steps)
    IN  IF mode = "raise"
        THEN /\ response' = ExceptionResponse
             /\ backend_call' = NoCall
             /\ UNCHANGED <<_instances, resources, busVars>>
        ELSE /\ _instances' = _instances \cup {mode}
             /\ backend_call' = Call("create", mode, resource_id, <<>>)
             /\ response' = IF made.returns = "resource" THEN OkResponse(resource_id)
                            ELSE FailedResponse
             /\ resources' =
                   IF made.created
                   THEN [r \in DOMAIN resources \cup {resource_id} |->
                             IF r = resource_id
                             THEN [agent_name |-> agent_name, mode |-> mode, alive |-> TRUE]
                             ELSE resources[r]]
                   ELSE resources
             /\ IF made.emitted
                THEN emit("agent.spawn", SpawnPayload(agent_name, resource_id, session_key),
                          NoKey, NoAgent, FALSE)
                ELSE UNCHANGED busVars

\* LikuDaemon._create_sandbox_resource, call by call
create_resource_steps(agent_name, session_key, agent_json, steps) ==
    /\ n_requests < MaxRequests
    /\ n_requests' = n_requests + 1
    /\ request' = Request("create_pane", agent_name, 0, <<>>, NoAgent)
    /\ IF agent_name = NoAgent \/ session_key = NoKey
       THEN /\ response' = MissingResponse
            /\ backend_call' = NoCall
            /\ UNCHANGED <<agent_configs, _instances, resources, busVars>>
       ELSE /\ Cardinality(DOMAIN resources) < MaxResources
            /\ agent_configs' = ConfigsAfterMerge(agent_name, agent_json)
            /\ DriveCreate(MergedConfig(agent_name, agent_json), agent_name,
                           session_key, NextResourceId, steps)
    /\ UNCHANGED global_policies
(***************************************************************************)
(* SandboxFactory.get_sandbox, statement by statement, as the handler      *)
(* threads LikuDaemon.start creates (one per connection) run it.           *)
(***************************************************************************)
Threads == {"t1", "t2"}
FactoryModes == {"tmux", "docker", "vm"}
NoInstance == 0
ThreadIdle == [pc |-> "idle", mode |-> "tmux", instance |-> NoInstance]

\* line 47: if mode in SandboxFactory._instances: return the cached instance;
\* lines 51, 57, 63: the branch on the mode
GetSandboxCheck ==
    /\ \E t \in Threads, mode \in FactoryModes :
        /\ fac_thread[t].pc = "idle"
        /\ n_gets < MaxGets
        /\ n_gets' = n_gets + 1
        /\ IF fac_cache[mode] # NoInstance
           THEN /\ fac_returned' = fac_returned \cup {<<mode, fac_cache[mode]>>}
                /\ UNCHANGED fac_thread
           ELSE /\ IF mode \in {"docker", "tmux"}
                   THEN fac_thread' = [fac_thread EXCEPT ![t] = [pc |-> "construct", mode |-> mode,
                                                                 instance |-> NoInstance]]
                   ELSE UNCHANGED fac_thread
                /\ UNCHANGED fac_returned
        /\ UNCHANGED <<fac_cache, fac_built>>
    /\ UNCHANGED factoryRest

\* lines 53, 59: instance = DockerSandbox(...) / TmuxSandbox(...); ok tells
\* whether the constructor returns (DockerSandbox raises without a daemon)
GetSandboxConstruct ==
    /\ \E t \in Threads, ok \in BOOLEAN :
        /\ fac_thread[t].pc = "construct"
        /\ ok \/ fac_thread[t].mode = "docker"
        /\ IF ok
           THEN /\ fac_built' = fac_built \cup {[id |-> Cardinality(fac_built) + 1,
                                                mode |-> fac_thread[t].mode]}
                /\ fac_thread' = [fac_thread EXCEPT ![t].pc = "store",
                                                    ![t].instance = Cardinality(fac_built) + 1]
           ELSE /\ fac_thread' = [fac_thread EXCEPT ![t] = ThreadIdle]
                /\ UNCHANGED fac_built
        /\ UNCHANGED <<fac_cache, fac_returned, n_gets>>
    /\ UNCHANGED factoryRest

\* lines 54-55, 60-61: SandboxFactory._instances[mode] = instance; return instance
GetSandboxStore ==
    /\ \E t \in Threads :
        /\ fac_thread[t].pc = "store"
        /\ fac_cache' = [fac_cache EXCEPT ![fac_thread[t].mode] = fac_thread[t].instance]
        /\ fac_returned' = fac_returned \cup {<<fac_thread[t].mode, fac_thread[t].instance>>}
        /\ fac_thread' = [fac_thread EXCEPT ![t] = ThreadIdle]
        /\ UNCHANGED <<fac_built, n_gets>>
    /\ UNCHANGED factoryRest

FactoryIdle ==
    /\ fac_cache = [mode \in FactoryModes |-> NoInstance]
    /\ fac_thread = [t \in Threads |-> ThreadIdle]
    /\ fac_built = {}
    /\ fac_returned = {}
    /\ n_gets = 0

(***************************************************************************)
(* The daemon's wire protocol: LikuDaemon._process_request on the parsed   *)
(* request and LikuDaemon._handle_client on the bytes of one connection.   *)
(* Requests are JSON values; the handlers' work behind the validation is   *)
(* an outcome drawn by the caller.                                         *)
(***************************************************************************)
\* the characters of the action names and keys of the protocol
Chars(word) ==
    CASE word = "action" ->
            <<"a", "c", "t", "i", "o", "n">>
      [] word = "keys" ->
            <<"k", "e", "y", "s">>
      [] word = "session_key" ->
            <<"s", "e", "s", "s", "i", "o", "n", "_", "k", "e", "y">>
      [] word = "event_type" ->
            <<"e", "v", "e", "n", "t", "_", "t", "y", "p", "e">>
      [] word = "emit_event" ->
            <<"e", "m", "i", "t", "_", "e", "v", "e", "n", "t">>
      [] word = "get_events" ->
            <<"g", "e", "t", "_", "e", "v", "e", "n", "t", "s">>
      [] word = "list_sessions" ->
            <<"l", "i", "s", "t", "_", "s", "e", "s", "s", "i", "o", "n", "s">>
      [] word = "list_panes" ->
            <<"l", "i", "s", "t", "_", "p", "a", "n", "e", "s">>
      [] word = "create_pane" ->
            <<"c", "r", "e", "a", "t", "e", "_", "p", "a", "n", "e">>
      [] word = "kill_pane" ->
            <<"k", "i", "l", "l", "_", "p", "a", "n", "e">>
      [] word = "send_keys" ->
            <<"s", "e", "n", "d", "_", "k", "e", "y", "s">>
      [] word = "capture_pane" ->
            <<"c", "a", "p", "t", "u", "r", "e", "_", "p", "a", "n", "e">>
      [] word = "get_agent_sessions" ->
            <<"g", "e", "t", "_", "a", "g", "e", "n", "t", "_", "s", "e", "s", "s", "i", "o", "n", "s">>
      [] word = "start_agent_session" ->
            <<"s", "t", "a", "r", "t", "_", "a", "g", "e", "n", "t", "_", "s", "e", "s", "s", "i", "o", "n">>
      [] word = "end_agent_session" ->
            <<"e", "n", "d", "_", "a", "g", "e", "n", "t", "_", "s", "e", "s", "s", "i", "o", "n">>
      [] word = "ping" ->
            <<"p", "i", "n", "g">>
      [] word = "nope" ->
            <<"n", "o", "p", "e">>

\* dict.get(key): the value of the key, None for no key
Get(obj, key) ==
    IF \E i \in 1..Len(obj.k) : obj.k[i] = key
    THEN obj.v[CHOOSE i \in 1..Len(obj.k) : obj.k[i] = key]
    ELSE JNull

\* bool(value): None, "", [] and {} are false
Truthy(val) ==
    CASE val.t = "null" -> FALSE
      [] val.t = "str" -> val.s # <<>>
      [] OTHER -> val.v # <<>>

WireOk == [status |-> "ok", error |-> "", arg |-> <<>>]
WireError(error) == [status |-> "error", error |-> error, arg |-> <<>>]
NoWire == [status |-> "none", error |-> "", arg |-> <<>>]

Returned(resp, effect) == [raised |-> FALSE, response |-> resp, effect |-> effect]
Raised(effect) == [raised |-> TRUE, response |-> NoWire, effect |-> effect]

\* what the component behind a handler can do once the request is validated:
\* return, return a failure the handler reports, refuse (the policy check of
\* _send_keys), or raise
HandlerOutcomes(action) ==
    CASE action = Chars("emit_event") -> {"ok", "raise"}
      [] action \in {Chars("get_events"), Chars("list_sessions"), Chars("list_panes")} ->
            {"ok", "raise"}
      [] action \in {Chars("create_pane"), Chars("kill_pane"), Chars("capture_pane")} ->
            {"ok", "failed"}
      [] action = Chars("send_keys") -> {"ok", "failed", "denied", "raise"}
      [] action \in {Chars("get_agent_sessions"), Chars("start_agent_session"),
                     Chars("end_agent_session")} ->
            {"raise"}
      [] OTHER -> {"ok"}

\* a handler whose request passed the validation: the call of the component
\* (kind names it) and the response built from its outcome
Handled(kind, outcome) ==
    CASE outcome = "ok" -> Returned(WireOk, kind)
      [] outcome = "failed" -> Returned(WireError("Failed"), kind)
      [] outcome = "denied" -> Returned(WireError("Command not allowed by agent policy"), "none")
      [] OTHER -> Raised(kind)

\* self.state_backend.get_sessions / start_session / end_session: StateBackend
\* defines none of them, the attribute lookup raises AttributeError
state_backend_has(method) ==
    method \in {"create_agent_session", "get_agent_session", "get_agent_session_by_pane_id",
                "list_agent_sessions", "update_agent_status", "record_pane", "get_pane",
                "list_panes", "log_event", "get_events", "add_guidance", "get_guidance",
                "set_approval_mode", "get_approval_mode", "close", "close_all_connections"}

StateCall(method, outcome) ==
    IF state_backend_has(method) THEN Handled("store", outcome) ELSE Raised("none")

\* LikuDaemon._process_request and the handlers it dispatches to
_process_request(req, outcome) ==
    LET action == Get(req, Chars("action"))
    IN  IF req.t # "obj" THEN Raised("none")
        ELSE IF ~Truthy(action) THEN Returned(WireError("Missing 'action' field"), "none")
        ELSE IF action.s = Chars("emit_event") THEN
            IF ~Truthy(Get(req, Chars("event_type")))
            THEN Returned(WireError("Missing 'event_type'"), "none")
            ELSE Handled("emit", outcome)
        ELSE IF action.s = Chars("get_events") THEN Handled("read", outcome)
        ELSE IF action.s \in {Chars("list_sessions"), Chars("list_panes")}
             THEN Handled("sandbox", outcome)
        ELSE IF action.s = Chars("create_pane") THEN
            IF ~Truthy(Get(req, K_agent_name)) \/ ~Truthy(Get(req, K_session))
            THEN Returned(WireError("Missing 'agent_name' or 'session'"), "none")
            ELSE Handled("sandbox", outcome)
        ELSE IF action.s = Chars("kill_pane") THEN
            IF ~Truthy(Get(req, K_pane_id))
            THEN Returned(WireError("Missing 'pane_id'"), "none")
            ELSE Handled("sandbox", outcome)
        ELSE IF action.s = Chars("send_keys") THEN
            IF ~Truthy(Get(req, K_pane_id)) \/ ~Truthy(Get(req, Chars("keys")))
            THEN Returned(WireError("Missing 'pane_id' or 'keys'"), "none")
            ELSE Handled("sandbox", outcome)
        ELSE IF action.s = Chars("capture_pane") THEN
            IF ~Truthy(Get(req, K_pane_id))
            THEN Returned(WireError("Missing 'pane_id'"), "none")
            ELSE Handled("sandbox", outcome)
        ELSE IF action.s = Chars("get_agent_sessions") THEN StateCall("get_sessions", outcome)
        ELSE IF action.s = Chars("start_agent_session") THEN
            IF ~Truthy(Get(req, K_agent_name))
            THEN Returned(WireError("Missing 'agent_name'"), "none")
            ELSE StateCall("start_session", outcome)
        ELSE IF action.s = Chars("end_agent_session") THEN
            IF ~Truthy(Get(req, Chars("session_key")))
            THEN Returned(WireError("Missing 'session_key'"), "none")
            ELSE StateCall("end_session", outcome)
        ELSE IF action.s = Chars("ping") THEN Returned(WireOk, "none")
        ELSE Returned([status |-> "error", error |-> "Unknown action: ", arg |-> action.s],
                      "none")

\* LikuDaemon._handle_client from recv to sendall: the responses sent on the
\* connection (none for no data) and the effect of the handler
_handle_client(data, outcome) ==
    IF data = <<>> THEN [sent |-> <<>>, effect |-> "none"]
    ELSE IF ~loads(data).ok
         THEN [sent |-> <<WireError("Invalid JSON")>>, effect |-> "none"]
    ELSE LET r == _process_request(loads(data).val, outcome)
         IN  IF r.raised THEN [sent |-> <<WireError("exception")>>, effect |-> r.effect]
             ELSE [sent |-> <<r.response>>, effect |-> r.effect]

\* the requests tried: every action, one that is none of them and none at
\* all, with every subset of the fields the handlers look at
WireFields ==
    <<K_agent_name, K_session, K_pane_id, Chars("keys"), Chars("session_key"),
      Chars("event_type")>>
WireActions ==
    {Chars("emit_event"), Chars("get_events"), Chars("list_sessions"), Chars("list_panes"),
     Chars("create_pane"), Chars("kill_pane"),
     Chars("send_keys"), Chars("capture_pane"), Chars("get_agent_sessions"), Chars("start_agent_session"),
     Chars("end_agent_session"), Chars("ping")}
MakeRequest(action, fields) ==
    LET ks == SelectSeq(WireFields, LAMBDA f : f \in fields)
        ka == IF action = <<>> THEN <<>> ELSE <<Chars("action")>>
        va == IF action = <<>> THEN <<>> ELSE <<JStr(action)>>
    IN  JObj(ka \o ks, va \o [i \in 1..Len(ks) |-> JStr(<<"x">>)])
WireRequests ==
    {MakeRequest(action, fields) :
        action \in WireActions \cup {Chars("nope"), <<>>},
        fields \in SUBSET {WireFields[i] : i \in 1..Len(WireFields)}}
    \cup {JArr(<<>>), JStr(Chars("ping"))}

WireIdle ==
    /\ wire_request = JNull
    /\ wire_result = Returned(NoWire, "none")
    /\ n_wire = 0


(***************************************************************************)
(* Two LikuDaemon instances configured with one filesystem socket path:    *)
(* start() up to the accept loop and stop(), statement by statement.       *)
(***************************************************************************)
Daemons == {"d1", "d2"}
NoDaemon == "None"

\* line 171: os.path.exists(self.socket_path)
StartExists(d) ==
    /\ pd_pc[d] \in {"idle", "stopped"}
    /\ pd_starts[d] < MaxPairStarts
    /\ pd_starts' = [pd_starts EXCEPT ![d] = @ + 1]
    /\ pd_pc' = [pd_pc EXCEPT ![d] = IF pd_file # NoDaemon THEN "unlink" ELSE "bind"]
    /\ UNCHANGED <<pd_listening, pd_file>>

\* line 172: os.unlink(self.socket_path), whoever bound the file; it raises
\* FileNotFoundError when the file is gone by now
StartUnlink(d) ==
    /\ pd_pc[d] = "unlink"
    /\ pd_pc' = [pd_pc EXCEPT ![d] = IF pd_file = NoDaemon THEN "raised" ELSE "bind"]
    /\ pd_file' = NoDaemon
    /\ UNCHANGED <<pd_listening, pd_starts>>

\* lines 174-175: bind creates the file, and raises OSError when there is one
StartBind(d) ==
    /\ pd_pc[d] = "bind"
    /\ pd_pc' = [pd_pc EXCEPT ![d] = IF pd_file # NoDaemon THEN "raised" ELSE "listen"]
    /\ pd_file' = IF pd_file # NoDaemon THEN pd_file ELSE d
    /\ UNCHANGED <<pd_listening, pd_starts>>

\* lines 176-181: listen, then chmod of the path (it raises when the file is
\* gone), then self.running = True and the accept loop
StartListen(d) ==
    /\ pd_pc[d] = "listen"
    /\ pd_listening' = [pd_listening EXCEPT ![d] = TRUE]
    /\ pd_pc' = [pd_pc EXCEPT ![d] = IF pd_file = NoDaemon THEN "raised" ELSE "running"]
    /\ UNCHANGED <<pd_file, pd_starts>>

\* lines 207-213: stop() on a daemon that was constructed, that runs, or whose
\* start() raised: self.running = False and the socket, if any, is closed
StopClose(d) ==
    /\ pd_pc[d] \in {"idle", "running", "raised"}
    /\ pd_listening' = [pd_listening EXCEPT ![d] = FALSE]
    /\ pd_pc' = [pd_pc EXCEPT ![d] = "stop_exists"]
    /\ UNCHANGED <<pd_file, pd_starts>>

\* line 215: self.socket_path and os.path.exists(self.socket_path)
StopExists(d) ==
    /\ pd_pc[d] = "stop_exists"
    /\ pd_pc' = [pd_pc EXCEPT ![d] = IF pd_file # NoDaemon THEN "stop_unlink" ELSE "stopped"]
    /\ UNCHANGED <<pd_listening, pd_file, pd_starts>>

\* lines 216-219: os.unlink(self.socket_path), whoever bound the file; its
\* exception is swallowed
StopUnlink(d) ==
    /\ pd_pc[d] = "stop_unlink"
    /\ pd_file' = NoDaemon
    /\ pd_pc' = [pd_pc EXCEPT ![d] = "stopped"]
    /\ UNCHANGED <<pd_listening, pd_starts>>

\* two daemons constructed, no socket file
PairIdle ==
    /\ pd_pc = [d \in Daemons |-> "idle"]
    /\ pd_listening = [d \in Daemons |-> FALSE]
    /\ pd_file = NoDaemon
    /\ pd_starts = [d \in Daemons |-> 0]
(***************************************************************************)
(* LikuDaemon.start and LikuDaemon.stop, with the handler threads start    *)
(* creates.  A listening socket closed by another thread while accept() is *)
(* blocked on it either makes accept() raise or leaves it blocked until    *)
(* a connection arrives, by the platform.                                  *)
(***************************************************************************)
NewConn(data) == [pc |-> "pending", data |-> data, sent |-> <<>>, effect |-> "none",
                  late |-> FALSE]

\* what clients send: nothing, text that is no JSON, JSON that is no object,
\* an object without action, ping, and a request whose handler raises
ClientPayloads ==
    {<<>>, <<"{">>, <<"[", "]">>, <<"{", "}">>,
     dumps(MakeRequest(Chars("ping"), {})),
     dumps(MakeRequest(Chars("start_agent_session"), {K_agent_name}))}

\* start, lines 159-182: bind and listen (a file found at socket_path is
\* unlinked first), self.running = True
Start ==
    /\ main_pc = "idle"
    /\ socket_server' = "open"
    /\ sock_file' = IF use_tcp THEN sock_file ELSE "bound"
    /\ running' = TRUE
    /\ main_pc' = "loop"
    /\ UNCHANGED <<use_tcp, main_conn, conns, stop_began, n_stops>>
    /\ UNCHANGED serverRest

\* line 185: while self.running
LoopTest ==
    /\ main_pc = "loop"
    /\ main_pc' = IF running THEN "accept" ELSE "stop"
    /\ UNCHANGED <<use_tcp, running, socket_server, sock_file, main_conn, conns, stop_began,
                   n_stops>>
    /\ UNCHANGED serverRest

\* line 187: accept() is called; on a closed socket object it raises at
\* once and line 200 catches it
AcceptCall ==
    /\ main_pc = "accept"
    /\ main_pc' = IF socket_server = "closed" THEN "loop" ELSE "blocked"
    /\ UNCHANGED <<use_tcp, running, socket_server, sock_file, main_conn, conns, stop_began,
                   n_stops>>
    /\ UNCHANGED serverRest

\* line 187: accept() returns a connection of the backlog
AcceptReturn ==
    /\ \E c \in 1..Len(conns) :
        /\ main_pc = "blocked"
        /\ conns[c].pc = "pending"
        /\ \A d \in 1..(c - 1) : conns[d].pc # "pending"
        /\ conns' = [conns EXCEPT ![c].pc = "accepted", ![c].late = stop_began]
        /\ main_conn' = c
        /\ main_pc' = "spawn"
        /\ UNCHANGED <<use_tcp, running, socket_server, sock_file, stop_began, n_stops>>
    /\ UNCHANGED serverRest

\* line 187: the blocked accept() raises because the socket was closed
AcceptAborted ==
    /\ main_pc = "blocked"
    /\ socket_server = "closed"
    /\ main_pc' = "loop"
    /\ UNCHANGED <<use_tcp, running, socket_server, sock_file, main_conn, conns, stop_began,
                   n_stops>>
    /\ UNCHANGED serverRest

\* lines 190-195: the handler thread is created and started
SpawnHandler ==
    /\ main_pc = "spawn"
    /\ conns' = [conns EXCEPT ![main_conn].pc = "recv"]
    /\ main_conn' = 0
    /\ main_pc' = "loop"
    /\ UNCHANGED <<use_tcp, running, socket_server, sock_file, stop_began, n_stops>>
    /\ UNCHANGED serverRest

\* KeyboardInterrupt in the thread that runs start: inside the try of lines
\* 186-199 it is caught and the loop is left; at the loop test it leaves start
Interrupt ==
    /\ main_pc \in {"loop", "accept", "blocked", "spawn"}
    /\ ~stop_began
    /\ stop_began' = TRUE
    /\ main_pc' = IF main_pc = "loop" THEN "aborted" ELSE "stop"
    /\ UNCHANGED <<use_tcp, running, socket_server, sock_file, main_conn, conns, n_stops>>
    /\ UNCHANGED serverRest

\* stop, lines 205-221
stop ==
    /\ running' = FALSE
    /\ socket_server' = IF socket_server = "None" THEN "None" ELSE "closed"
    /\ sock_file' = IF use_tcp THEN sock_file ELSE "absent"

\* line 203: self.stop() after the loop
StopAfterLoop ==
    /\ main_pc = "stop"
    /\ stop
    /\ stop_began' = TRUE
    /\ main_pc' = "done"
    /\ UNCHANGED <<use_tcp, main_conn, conns, n_stops>>
    /\ UNCHANGED serverRest

\* stop() called by another thread on the started daemon
StopCall ==
    /\ socket_server # "None"
    /\ n_stops < MaxStops
    /\ n_stops' = n_stops + 1
    /\ stop
    /\ stop_began' = TRUE
    /\ UNCHANGED <<use_tcp, main_pc, main_conn, conns>>
    /\ UNCHANGED serverRest

\* a client connects and sends its payload: the socket listens (it still
\* does while an accept() blocked on it survives the close), and a UNIX
\* socket is reached through its file
Connect ==
    /\ \E data \in ClientPayloads :
        /\ Len(conns) < MaxConns
        /\ \/ socket_server = "open"
           \/ socket_server = "closed" /\ main_pc = "blocked"
        /\ use_tcp \/ sock_file = "bound"
        /\ conns' = Append(conns, NewConn(data))
        /\ UNCHANGED <<use_tcp, running, socket_server, sock_file, main_pc, main_conn, stop_began,
                       n_stops>>
    /\ UNCHANGED serverRest

\* _handle_client in its thread, from recv to close
HandleClient ==
    /\ \E c \in 1..Len(conns) :
        \E outcome \in HandlerOutcomes(IF loads(conns[c].data).ok
                                        THEN Get(loads(conns[c].data).val, Chars("action")).s
                                        ELSE <<>>) :
            /\ conns[c].pc = "recv"
            /\ conns' = [conns EXCEPT ![c].pc = "closed",
                                      ![c].sent = _handle_client(conns[c].data, outcome).sent,
                                      ![c].effect = _handle_client(conns[c].data, outcome).effect]
            /\ UNCHANGED <<use_tcp, running, socket_server, sock_file, main_pc, main_conn, stop_began,
                           n_stops>>
    /\ UNCHANGED serverRest

\* a daemon that was constructed and not started
ServerIdle ==
    /\ use_tcp = FALSE
    /\ running = FALSE
    /\ socket_server = "None"
    /\ sock_file = "absent"
    /\ main_pc = "idle"
    /\ main_conn = 0
    /\ conns = <<>>
    /\ stop_began = FALSE
    /\ n_stops = 0

(***************************************************************************)
(* One request on its way: LikuClient._send_request hands the whole text   *)
(* to sendall, the transport delivers it in segments, and _handle_client   *)
(* reads with one recv.                                                    *)
(***************************************************************************)
\* client_socket.recv(4096)
RecvSize == 4096

\* well-formed requests a client sends
SentRequests ==
    {MakeRequest(Chars("ping"), {}),
     MakeRequest(Chars("kill_pane"), {K_pane_id}),
     MakeRequest(Chars("send_keys"), {K_pane_id, Chars("keys")}),
     MakeRequest(Chars("nope"), {})}

\* _send_request, line 86: sock.sendall(json.dumps(request).encode())
ClientSend ==
    /\ rv_pc = "idle"
    /\ \E req \in SentRequests : rv_payload' = dumps(req)
    /\ rv_pc' = "sending"
    /\ UNCHANGED <<rv_arrived, rv_data, rv_sent>>
    /\ UNCHANGED <<confVars, baseVars, besides_recvVars>>

\* the transport delivers the next segment, of any size
Deliver ==
    /\ rv_pc = "sending"
    /\ \E n \in (rv_arrived + 1)..Len(rv_payload) : rv_arrived' = n
    /\ UNCHANGED <<rv_payload, rv_data, rv_sent, rv_pc>>
    /\ UNCHANGED <<confVars, baseVars, besides_recvVars>>

\* socket.recv(bufsize): what has arrived, up to bufsize characters
recv(arrived, bufsize) == SubSeq(rv_payload, 1, Min(arrived, bufsize))

\* _handle_client: recv returns as soon as something has arrived, and the
\* request is parsed from that
Receive ==
    /\ rv_pc = "sending"
    /\ rv_arrived > 0
    /\ LET data == recv(rv_arrived, RecvSize)
       IN  /\ rv_data' = data
           /\ rv_sent' = _handle_client(data, "ok").sent
    /\ rv_pc' = "handled"
    /\ UNCHANGED <<rv_payload, rv_arrived>>
    /\ UNCHANGED <<confVars, baseVars, besides_recvVars>>

RecvIdle ==
    /\ rv_payload = <<>>
    /\ rv_arrived = 0
    /\ rv_data = <<>>
    /\ rv_sent = <<>>
    /\ rv_pc = "idle"
\* the parts added after the retry loop
LaterIdle == NormInit /\ RaceInit /\ RecvIdle /\ PairIdle

FormerIdle == ConfigIdle /\ ThreadsIdle /\ WatcherIdle /\ FollowIdle /\ RetryIdle

ExtIdle == FormerIdle /\ LaterIdle

CoreIdle == SchemaIdle /\ ApprovalIdle /\ FactoryIdle /\ WireIdle /\ ServerIdle

MoreIdle == CoreIdle /\ ExtIdle

(***************************************************************************)
(* SpecPolicy: _is_command_allowed applied to one drawn input.             *)
(***************************************************************************)
InitPolicy ==
    /\ global_policies \in {[blocked_commands |-> b] : b \in BlockedChoices}
    /\ agent_configs \in {ac \in LoadedConfigs : "a2" \notin DOMAIN ac}
    /\ pol_agent \in Agents \cup {NoAgent}
    /\ pol_command \in Commands
    /\ pol_result = "unset"
    /\ BusInit /\ db_attached = FALSE /\ QueryIdle /\ StreamIdle /\ StoreInit /\ DaemonIdle /\ MoreIdle

CheckCommand ==
    /\ pol_result = "unset"
    /\ pol_result' = _is_command_allowed(pol_agent, pol_command)
    /\ UNCHANGED <<confVars, pol_agent, pol_command, busVars, queryVars, streamVars, storeVars, daemonVars, moreVars>>

NextPolicy == CheckCommand

SpecPolicy == InitPolicy /\ [][NextPolicy]_vars


(***************************************************************************)
(* SpecBus: emit calls, the clock and get_recent_events, with or without   *)
(* a store attached.                                                       *)
(***************************************************************************)
InitBus ==
    /\ ConfIdle /\ PolIdle /\ BusInit /\ QueryIdle /\ StreamIdle /\ StoreInit /\ DaemonIdle /\ MoreIdle
    /\ db_attached \in BOOLEAN

EmitAny ==
    /\ \E event_type \in EventTypes, payload \in SmallPayloads, db_fails \in BOOLEAN :
            emit(event_type, payload, NoKey, NoAgent, db_fails)
    /\ UNCHANGED <<confVars, polVars, queryVars, streamVars, storeVars, daemonVars, moreVars>>

ClockTick == Tick /\ UNCHANGED <<confVars, polVars, queryVars, streamVars, storeVars, daemonVars, moreVars>>

GetRecent ==
    /\ \E event_type \in EventTypes \cup {NoType}, limit \in 0..MaxLimit :
            get_recent_events(event_type, limit)
    /\ UNCHANGED <<confVars, polVars, streamVars, storeVars, daemonVars, moreVars>>

NextBus == EmitAny \/ ClockTick \/ GetRecent

SpecBus == InitBus /\ [][NextBus]_vars

(***************************************************************************)
(* SpecStream: emit calls, the clock, and stream / subscribe runs reading  *)
(* the events directory.                                                   *)
(***************************************************************************)
InitStream ==
    /\ ConfIdle /\ PolIdle /\ BusInit /\ QueryIdle /\ StreamIdle /\ StoreInit /\ DaemonIdle /\ MoreIdle
    /\ db_attached = FALSE

StreamStart ==
    /\ stream_start(NoFilter)
    /\ UNCHANGED <<confVars, polVars, busVars, queryVars, storeVars, daemonVars, moreVars>>

SubscribeStart ==
    /\ \E filter \in EventTypes \cup {"*"} : stream_start(filter)
    /\ UNCHANGED <<confVars, polVars, busVars, queryVars, storeVars, daemonVars, moreVars>>

StreamYield ==
    /\ \E raised \in BOOLEAN : stream_yield(raised)
    /\ UNCHANGED <<confVars, polVars, busVars, queryVars, storeVars, daemonVars, moreVars>>

StreamEnd == stream_end /\ UNCHANGED <<confVars, polVars, busVars, queryVars, storeVars, daemonVars, moreVars>>

NextStream == EmitAny \/ ClockTick \/ StreamStart \/ SubscribeStart \/ StreamYield \/ StreamEnd

SpecStream == InitStream /\ [][NextStream]_vars

(***************************************************************************)
(* SpecEmit: one emit call on a payload drawn from every kind of payload,  *)
(* read back from the event file and from the event_log row.               *)
(***************************************************************************)
TextAlphabet == {"{", "}", "[", "]", " ", "a"}
SampleTexts ==
    { <<"{", Q, "a", Q, ":", " ", Q, "a", Q, "}">>,
      <<"[", Q, "a", Q, ",", "n", "u", "l", "l", "]">>,
      <<"{", Q, "a", Q, ":", "[", "]">>,
      <<"a", Q, "a">>,
      <<"n", "u", "l", "l">>,
      <<Q, "a", Q>> }
SampleDicts ==
    { JObj(<<>>, <<>>),
      JObj(<< <<"a">> >>, << JStr(<<"a", Q>>) >>),
      JObj(<< <<"a">>, <<"a", "a">> >>, << JArr(<<JNull, JStr(<<"{">>)>>), JObj(<<>>, <<>>) >>) }
RoundTripPayloads ==
    {PyNone, PyList}
    \cup {PyDict(d) : d \in SampleDicts}
    \cup {PyStr(t) : t \in SeqsOver(TextAlphabet, 0, MaxTextLen) \cup SampleTexts}
    \cup {PyInt(n) : n \in {0, 7}}

InitEmit == InitBus

EmitOnce ==
    /\ n_emits = 0
    /\ \E event_type \in EventTypes, payload \in RoundTripPayloads, db_fails \in BOOLEAN :
            emit(event_type, payload, NoKey, NoAgent, db_fails)
    /\ UNCHANGED <<confVars, polVars, queryVars, streamVars, storeVars, daemonVars, moreVars>>

NextEmit == EmitOnce

SpecEmit == InitEmit /\ [][NextEmit]_vars

(***************************************************************************)
(* SpecStore: calls on the agent_session table.                            *)
(***************************************************************************)
InitStore == ConfIdle /\ PolIdle /\ BusInit /\ db_attached = FALSE /\ QueryIdle /\ StreamIdle /\ StoreInit /\ DaemonIdle /\ MoreIdle

CreateSession ==
    /\ \E agent_name \in Agents, session_key \in SessionKeys,
          terminal_id \in TerminalIds \cup {NoTerminal}, pid \in Pids, mode \in SessionModes :
            create_agent_session(agent_name, session_key, terminal_id, pid, mode)
    /\ UNCHANGED <<confVars, polVars, busVars, queryVars, streamVars, daemonVars, moreVars>>

UpdateStatus ==
    /\ \E agent_name \in Agents, session_key \in SessionKeys, status \in Statuses :
            update_agent_status(agent_name, session_key, status)
    /\ UNCHANGED <<confVars, polVars, busVars, queryVars, streamVars, daemonVars, moreVars>>

NextStore == CreateSession \/ UpdateStatus

SpecStore == InitStore /\ [][NextStore]_vars

(***************************************************************************)
(* SpecDaemon: a daemon serving sandbox requests, one at a time, while     *)
(* other users of the database record and end agent sessions.              *)
(***************************************************************************)
DaemonConfChoices ==
    {AgentConf(TRUE, Policies(FALSE, {}, "bogus")),
     AgentConf(TRUE, Policies(TRUE, {<<"m">>}, "unset")),
     AgentConf(TRUE, Policies(TRUE, {<<"m">>}, "docker"))}
DaemonKeys == {<<"m">>, <<"r">>, <<" ">>}
\* the agent that owns sessions in this specification
DaemonAgents == {"a1"}

InitDaemon ==
    /\ global_policies \in {[blocked_commands |-> b] : b \in {{}, {<<"r">>}}}
    /\ agent_configs \in [{"a1"} -> DaemonConfChoices] \cup {<<>>}
    /\ PolIdle /\ BusInit /\ db_attached = TRUE /\ QueryIdle /\ StreamIdle /\ StoreInit
    /\ DaemonIdle /\ MoreIdle

\* what a request leaves alone
restVars == <<polVars, queryVars, streamVars, storeVars, moreVars>>

CreatePane ==
    /\ \E agent_name \in DaemonAgents \cup {NoAgent}, agent_json \in AgentJsonChoices,
          tool \in ToolOutcomes :
            _create_sandbox_resource(agent_name, "k1", agent_json, tool)
    /\ UNCHANGED restVars

SendKeys ==
    /\ \E pane_id \in 0..MaxResources, keys \in DaemonKeys, tool \in ToolOutcomes :
            _send_keys(pane_id, keys, tool)
    /\ UNCHANGED restVars

KillPane ==
    /\ \E pane_id \in 0..MaxResources, tool \in ToolOutcomes :
            _kill_sandbox_resource(pane_id, tool)
    /\ UNCHANGED restVars

CapturePane ==
    /\ \E pane_id \in 0..MaxResources, tool \in ToolOutcomes :
            _capture_sandbox_output(pane_id, tool)
    /\ UNCHANGED restVars

\* another user of the database records the session of an agent in a pane
RecordSession ==
    /\ \E agent_name \in DaemonAgents, terminal_id \in 1..MaxResources :
            create_agent_session(agent_name, "k1", terminal_id, 0, "interactive")
    /\ UNCHANGED <<confVars, polVars, busVars, queryVars, streamVars, daemonVars, moreVars>>

\* ... and ends it
EndSession ==
    /\ \E agent_name \in DaemonAgents : update_agent_status(agent_name, "k1", "completed")
    /\ UNCHANGED <<confVars, polVars, busVars, queryVars, streamVars, daemonVars, moreVars>>

\* create_pane with the tool answering call by call
CreatePaneSteps ==
    /\ \E agent_name \in DaemonAgents \cup {NoAgent}, agent_json \in AgentJsonChoices,
          steps \in CreateSteps :
            create_resource_steps(agent_name, "k1", agent_json, steps)
    /\ UNCHANGED restVars

NextCreate == CreatePaneSteps \/ KillPane

SpecCreate == InitDaemon /\ [][NextCreate]_vars

NextDaemon == CreatePane \/ SendKeys \/ KillPane \/ CapturePane \/ RecordSession \/ EndSession

SpecDaemon == InitDaemon /\ [][NextDaemon]_vars

(***************************************************************************)
(* SpecOpen: StateBackend constructed on one database file, again and      *)
(* again, by processes that may end at any point, and sessions written     *)
(* through an opened store.                                                *)
(***************************************************************************)
InitOpen ==
    /\ ConfIdle /\ PolIdle /\ BusInit /\ db_attached = FALSE /\ QueryIdle /\ StreamIdle
    /\ StoreInit /\ DaemonIdle /\ ApprovalIdle /\ FactoryIdle /\ WireIdle /\ ServerIdle
    /\ ExtIdle
    /\ db_objects = {}
    /\ db_versions = {}
    /\ open_pc = "closed"
    /\ open_txn = {}
    /\ open_step = NoStep
    /\ open_pre = [objects |-> {}, versions |-> {}, rows |-> 0]
    /\ n_opens = 0
    /\ n_migrations = 0

\* a session written through the opened store
WriteSession ==
    /\ open_pc = "open"
    /\ "agent_session" \in db_objects
    /\ \E terminal_id \in TerminalIds : create_agent_session("a1", "k1", terminal_id, 0, "interactive")
    /\ UNCHANGED <<confVars, polVars, busVars, queryVars, streamVars, daemonVars, moreVars>>

NextOpen ==
    OpenBegin \/ MigrateStatement \/ MigrateRecord \/ OpenCommit \/ ProcessExit \/ WriteSession

SpecOpen == InitOpen /\ [][NextOpen]_vars

(***************************************************************************)
(* SpecApproval: calls of set_approval_mode and get_approval_mode.         *)
(***************************************************************************)
InitApproval ==
    /\ ConfIdle /\ PolIdle /\ BusInit /\ db_attached = FALSE /\ QueryIdle /\ StreamIdle
    /\ StoreInit /\ DaemonIdle /\ MoreIdle

SetApprovalMode ==
    /\ \E agent_name \in Agents, mode \in ApprovalModes \cup {"bogus"}, db_fails \in BOOLEAN :
            set_approval_mode(agent_name, mode, db_fails)
    /\ UNCHANGED approvalRest

GetApprovalMode ==
    /\ \E agent_name \in Agents : get_approval_mode(agent_name)
    /\ UNCHANGED approvalRest

NextApproval == SetApprovalMode \/ GetApprovalMode

SpecApproval == InitApproval /\ [][NextApproval]_vars

(***************************************************************************)
(* SpecFactory: the connection-handler threads of one daemon calling       *)
(* SandboxFactory.get_sandbox, interleaved at the statements of the        *)
(* method (there is no lock in it).                                        *)
(***************************************************************************)
InitFactory ==
    /\ ConfIdle /\ PolIdle /\ BusInit /\ db_attached = FALSE /\ QueryIdle /\ StreamIdle
    /\ StoreInit /\ DaemonIdle /\ MoreIdle

NextFactory == GetSandboxCheck \/ GetSandboxConstruct \/ GetSandboxStore

SpecFactory == InitFactory /\ [][NextFactory]_vars

(***************************************************************************)
(* SpecRequest: LikuDaemon._process_request called with one request after  *)
(* another, as the tests of the daemon call it.                            *)
(***************************************************************************)
InitRequest ==
    /\ ConfIdle /\ PolIdle /\ BusInit /\ db_attached = FALSE /\ QueryIdle /\ StreamIdle
    /\ StoreInit /\ DaemonIdle /\ MoreIdle

ProcessRequest ==
    /\ n_wire < MaxWire
    /\ \E req \in WireRequests :
        \E outcome \in HandlerOutcomes(Get(req, Chars("action")).s) :
            /\ wire_request' = req
            /\ wire_result' = _process_request(req, outcome)
    /\ n_wire' = n_wire + 1
    /\ UNCHANGED <<confVars, polVars, busVars, queryVars, streamVars, storeVars, daemonVars,
                   schemaVars, approvalVars, factoryVars, serverVars, extVars>>

NextRequest == ProcessRequest

SpecRequest == InitRequest /\ [][NextRequest]_vars

(***************************************************************************)
(* SpecServer: one daemon from start() on: the accept loop, the handler    *)
(* threads, clients connecting, an interrupt, stop() from other threads.   *)
(***************************************************************************)
InitServer ==
    /\ ConfIdle /\ PolIdle /\ BusInit /\ db_attached = FALSE /\ QueryIdle /\ StreamIdle
    /\ StoreInit /\ DaemonIdle /\ SchemaIdle /\ ApprovalIdle /\ FactoryIdle /\ WireIdle
    /\ ExtIdle
    /\ use_tcp \in BOOLEAN
    /\ running = FALSE
    /\ socket_server = "None"
    /\ sock_file \in (IF use_tcp THEN {"absent"} ELSE {"absent", "stale"})
    /\ main_pc = "idle"
    /\ main_conn = 0
    /\ conns = <<>>
    /\ stop_began = FALSE
    /\ n_stops = 0

NextServer ==
    \/ Start \/ LoopTest \/ AcceptCall \/ AcceptReturn \/ AcceptAborted \/ SpawnHandler
    \/ Interrupt \/ StopAfterLoop \/ StopCall \/ Connect \/ HandleClient

SpecServer == InitServer /\ [][NextServer]_vars

(***************************************************************************)
(* SpecConfig: LikuDaemon.__init__ loading its configuration file.         *)
(***************************************************************************)
InitConfig ==
    /\ ConfIdle /\ PolIdle /\ BusInit /\ db_attached = FALSE /\ QueryIdle /\ StreamIdle
    /\ StoreInit /\ DaemonIdle /\ MoreIdle

LoadConfig ==
    /\ ~cfg_loaded
    /\ \E file \in ConfigFiles :
        /\ cfg_file' = file
        /\ global_policies' = _load_agent_configs(file).global_policies
        /\ agent_configs' = _load_agent_configs(file).agent_configs
    /\ cfg_loaded' = TRUE
    /\ UNCHANGED <<baseVars, besides_configVars>>

NextConfig == LoadConfig

SpecConfig == InitConfig /\ [][NextConfig]_vars

(***************************************************************************)
(* SpecThreads: NWorkers threads, each calling create_agent_session with   *)
(* its own key and then log_event, on one StateBackend.                    *)
(***************************************************************************)
InitThreads ==
    /\ ConfIdle /\ PolIdle /\ BusInit /\ db_attached = FALSE /\ QueryIdle /\ StreamIdle
    /\ StoreInit /\ DaemonIdle /\ MoreIdle

NextThreads == AcquireLock \/ WriteSessionLocked \/ WriteEventLocked

SpecThreads == InitThreads /\ [][NextThreads]_vars

(***************************************************************************)
(* SpecWatcher: WatcherFactory.build on every platform, every set of       *)
(* installed programs, an existing or a missing directory.                 *)
(***************************************************************************)
InitWatcher ==
    /\ ConfIdle /\ PolIdle /\ BusInit /\ db_attached = FALSE /\ QueryIdle /\ StreamIdle
    /\ StoreInit /\ DaemonIdle /\ CoreIdle /\ ConfigIdle /\ ThreadsIdle /\ FollowIdle /\ RetryIdle /\ LaterIdle
    /\ w_system \in Systems
    /\ w_installed \in SUBSET Programs
    /\ w_exists \in BOOLEAN
    /\ w_recursive \in BOOLEAN
    /\ w_result = NoBuild

NextWatcher == Build

SpecWatcher == InitWatcher /\ [][NextWatcher]_vars

(***************************************************************************)
(* SpecFollow: one stream(follow=True) generator consumed while emit calls *)
(* add event files, on a platform with or without a watch program and      *)
(* with or without an importable watcher_factory module.                   *)
(***************************************************************************)
InitFollow ==
    /\ ConfIdle /\ PolIdle /\ BusInit /\ db_attached = FALSE /\ QueryIdle /\ StreamIdle
    /\ StoreInit /\ DaemonIdle /\ CoreIdle /\ ConfigIdle /\ ThreadsIdle /\ RetryIdle /\ LaterIdle
    /\ w_system \in {"Linux", "Unknown"}
    /\ w_installed \in {{}, {"inotifywait"}}
    /\ w_exists = TRUE
    /\ w_recursive = FALSE
    /\ w_result = NoBuild
    /\ fol_importable \in BOOLEAN
    /\ fol_pc = "idle"
    /\ fol_pending = <<>>
    /\ fol_seen = {}
    /\ fol_out = <<>>

NextFollow ==
    EmitAny \/ ClockTick \/ FollowStart \/ FollowBacklog \/ FollowWatch \/ WatchYield \/ PollTurn

SpecFollow == InitFollow /\ [][NextFollow]_vars

\* the consumer keeps calling next() on the generator, the watch program
\* keeps reporting and time.sleep(1) returns
FollowRuns ==
    /\ WF_vars(FollowStart) /\ WF_vars(FollowBacklog) /\ WF_vars(FollowWatch)
    /\ WF_vars(WatchYield) /\ WF_vars(PollTurn)

SpecFollowFair == SpecFollow /\ FollowRuns

(***************************************************************************)
(* SpecRetry: one database.log_event call on a database that may be locked *)
(* at any of its attempts; SpecRetryFair lets the calling thread run.      *)
(***************************************************************************)
InitRetry ==
    /\ ConfIdle /\ PolIdle /\ BusInit /\ db_attached = FALSE /\ QueryIdle /\ StreamIdle
    /\ StoreInit /\ DaemonIdle /\ CoreIdle /\ ConfigIdle /\ ThreadsIdle /\ WatcherIdle /\ FollowIdle /\ LaterIdle
    /\ rt_input \in [agent_name : Agents, message : {"m"}, type : {"INFO", "ERROR"}]
    /\ rt_pc = "call"
    /\ rt_attempt = 0
    /\ rt_sleeps = <<>>
    /\ rt_error = "none"
    /\ rt_logs = <<>>
    /\ rt_agents \in {<<>>, [n \in {"a1"} |-> [status |-> "IDLE", last_task_id |-> 7]]}

NextRetry == LogEventCall \/ LogEventAttempt

SpecRetry == InitRetry /\ [][NextRetry]_vars

\* the thread that called log_event is scheduled, and time.sleep returns
SpecRetryFair == SpecRetry /\ WF_vars(NextRetry)

(***************************************************************************)
(* SpecNormalize: normalize_output called on raw lines while the clock     *)
(* advances; SpecDebounce: should_emit and reset called directly.          *)
(***************************************************************************)
InitNormalize ==
    /\ ConfIdle /\ PolIdle /\ BusInit /\ db_attached = FALSE /\ QueryIdle /\ StreamIdle
    /\ StoreInit /\ DaemonIdle /\ MoreIdle

NextNormalize == Normalize \/ DebTick

SpecNormalize == InitNormalize /\ [][NextNormalize]_vars

NextDebounce == ShouldEmit \/ DebReset \/ DebTick

SpecDebounce == InitNormalize /\ [][NextDebounce]_vars

(***************************************************************************)
(* SpecRace: two handles opened concurrently on a fresh file, then written *)
(* through.                                                                *)
(***************************************************************************)
InitRace ==
    /\ ConfIdle /\ PolIdle /\ BusInit /\ db_attached = FALSE /\ QueryIdle /\ StreamIdle
    /\ StoreInit /\ DaemonIdle /\ MoreIdle

RaceOpening ==
    /\ \E h \in Handles : RaceBegin(h) \/ RaceMigrate(h) \/ RaceRecord(h) \/ RaceCommit(h)
    /\ UNCHANGED <<confVars, baseVars, besides_raceVars>>

RaceWriting ==
    /\ \E h \in Handles : RaceWrite(h)
    /\ UNCHANGED <<confVars, baseVars, besides_raceVars>>

NextRace == RaceOpening \/ RaceWriting

SpecRace == InitRace /\ [][NextRace]_vars

(***************************************************************************)
(* SpecRecv: one well-formed request sent, delivered in segments, and read *)
(* by the daemon.                                                          *)
(***************************************************************************)
NextRecv == ClientSend \/ Deliver \/ Receive

SpecRecv == InitRace /\ [][NextRecv]_vars

(***************************************************************************)
(* SpecPair: two daemons on one socket path start and stop in any          *)
(* interleaving of their statements.                                       *)
(***************************************************************************)
PairStart ==
    /\ \E d \in Daemons : StartExists(d) \/ StartUnlink(d) \/ StartBind(d) \/ StartListen(d)
    /\ UNCHANGED <<confVars, baseVars, besides_pairVars>>

PairStop ==
    /\ \E d \in Daemons : StopClose(d) \/ StopExists(d) \/ StopUnlink(d)
    /\ UNCHANGED <<confVars, baseVars, besides_pairVars>>

NextPair == PairStart \/ PairStop

SpecPair == InitRace /\ [][NextPair]_vars
\* the policy as section 4.4 states it
HasNonEmptyAllowList(agent_name) ==
    /\ agent_name \in DOMAIN agent_configs
    /\ agent_configs[agent_name].has_policies
    /\ agent_configs[agent_name].policies.has_allowed
    /\ agent_configs[agent_name].policies.allowed_commands # {}

FirstTokenAllowed(agent_name, command) ==
    /\ split(command) # <<>>
    /\ split(command)[1] \in agent_configs[agent_name].policies.allowed_commands

ReferenceDecision(agent_name, command) ==
    IF \E blocked \in global_policies.blocked_commands : startswith(strip(command), blocked)
    THEN "deny"
    ELSE IF HasNonEmptyAllowList(agent_name) /\ ~FirstTokenAllowed(agent_name, command)
    THEN "deny"
    ELSE "allow"

\* SendKeys was served past its field check: the policy was applied
PolicyApplied == request.action = "send_keys" /\ response # MissingResponse

\* C1: a send_keys request reaches the backend's execute only if the command
\* passes the policy for the agent that owns the resource, and a command the
\* policy denies gets an error response naming the agent and the command,
\* with no backend call.
C1_ExecuteOnlyIfAllowed ==
    PolicyApplied =>
        /\ backend_call.method = "execute" =>
              ReferenceDecision(request.owner, request.keys) = "allow"
        /\ ReferenceDecision(request.owner, request.keys) = "deny" =>
              /\ response = DeniedResponse(request.owner, request.keys)
              /\ backend_call = NoCall

\* C3: send_keys, kill_pane and capture_pane on a resource create_pane made
\* for agent A under sandbox mode m go to the backend of mode m, and
\* send_keys is checked against the policy of A.
C3_RequestsFollowTheResource ==
    (/\ request.action \in {"send_keys", "kill_pane", "capture_pane"}
     /\ request.pane_id \in DOMAIN resources) =>
        /\ backend_call # NoCall => backend_call.mode = resources[request.pane_id].mode
        /\ request.owner = resources[request.pane_id].agent_name
        /\ (request.action = "send_keys" /\ backend_call.method = "execute") =>
              ReferenceDecision(resources[request.pane_id].agent_name, request.keys) = "allow"

\* C2: for every agent, policy and command the decision of
\* _is_command_allowed equals the reference decision (global block first,
\* then the agent's non-empty allow-list on the first token, else allowed).
C2_DecisionEqualsReference ==
    pol_result # "unset" => pol_result = ReferenceDecision(pol_agent, pol_command)


\* the payload section 4.1 says is stored: None as null, a dict as it is,
\* text that parses as a JSON object or array as that value, any other text
\* as a string, any other value as its string form
Normalized(payload) ==
    CASE payload.py = "none" -> JNull
      [] payload.py = "dict" -> payload.val
      [] payload.py = "str" ->
            IF loads(payload.text).ok /\ loads(payload.text).val.t \in {"obj", "arr"}
            THEN loads(payload.text).val
            ELSE JStr(payload.text)
      [] OTHER -> JStr(str(payload))

\* C4: every emit call returns, and the payload read back from the event
\* file and from the event_log row is the normalized payload, whatever the
\* payload was (None, dict, JSON text, JSON-looking text, other text, other
\* value).
C4_EmitRoundTrip ==
    emit_ret.outcome # "none" =>
        /\ emit_ret.outcome = "returned"
        /\ emit_ret.file \in DOMAIN files
        /\ loads(files[emit_ret.file].payload).ok
        /\ loads(files[emit_ret.file].payload).val = Normalized(emit_req.payload)
        /\ \A i \in 1..Len(event_log) :
              /\ loads(event_log[i].payload).ok
              /\ loads(event_log[i].payload).val = Normalized(emit_req.payload)

\* C5: every emit call returns the name of an event file that exists, and
\* in that call exactly one event file is written and, when a store is
\* attached and its insert does not fail, exactly one row is inserted; a
\* failing insert leaves the call returning all the same.
C5_EmitWritesOneFileOneRow ==
    [][n_emits' = n_emits + 1 =>
        /\ emit_ret'.outcome = "returned"
        /\ emit_ret'.file \in DOMAIN files'
        /\ files'[emit_ret'.file].type = emit_req'.event_type
        /\ \A f \in DOMAIN files : f # emit_ret'.file => f \in DOMAIN files' /\ files'[f] = files[f]
        /\ DOMAIN files' \subseteq DOMAIN files \cup {emit_ret'.file}
        /\ Len(event_log') = (IF db_attached /\ ~emit_ret'.db_error
                              THEN Len(event_log) + 1 ELSE Len(event_log))
        /\ SubSeq(event_log', 1, Len(event_log)) = event_log]_vars

\* C6: after N emit calls have returned, whether at different or at the
\* same reading of the clock, there are N distinct event files and, for the
\* calls whose insert did not fail, as many distinct rows.
C6_DistinctFilesAndRows ==
    /\ Cardinality(DOMAIN files) = n_returned
    /\ Len(event_log) = n_logged
    /\ \A i, j \in 1..Len(event_log) : i # j => event_log[i].id # event_log[j].id

\* the ids of the rows a query for event_type matches, among the first n rows
MatchingIds(event_type, n) ==
    {i \in 1..n : event_type = NoType \/ event_log[i].event_type = event_type}

\* the k-th largest element of a set of numbers
RECURSIVE KthLargest(_, _)
KthLargest(S, k) ==
    LET greatest == CHOOSE x \in S : \A y \in S : x >= y
    IN  IF k = 1 THEN greatest ELSE KthLargest(S \ {greatest}, k - 1)

\* C7: with a store attached, get_recent_events(limit = k) after at least k
\* matching emissions returns exactly k events, the k most recently emitted
\* ones, the most recent first, also for events of one store timestamp.
C7_RecentEventsNewestFirst ==
    (/\ recent.valid
     /\ recent.source = "db"
     /\ Cardinality(MatchingIds(recent.event_type, recent.rows)) >= recent.limit) =>
        /\ Len(recent.events) = recent.limit
        /\ \A i \in 1..Len(recent.events) :
              recent.events[i].id = KthLargest(MatchingIds(recent.event_type, recent.rows), i)

\* no event file was written while the run went on
QuietRun(run) == run.wbegin = run.wend

\* C8: stream(follow = False) yields every event file that existed when it
\* started exactly once, in ascending file-name order, then terminates; a
\* second run over the unchanged directory yields the same sequence.
C8_StreamBacklogInOrder ==
    str_pc = "done" =>
        /\ str_pending = <<>>
        /\ {str_out[i].name : i \in 1..Len(str_out)} = DOMAIN str_start.begin
        /\ \A i, j \in 1..Len(str_out) : i < j => str_out[i].name < str_out[j].name
        /\ QuietRun(str_start) =>
              \A i \in 1..Len(str_out) :
                  /\ str_out[i].type = str_start.begin[str_out[i].name].type
                  /\ str_out[i].payload = loads(str_start.begin[str_out[i].name].payload).val
        /\ (str_prev.valid /\ QuietRun(str_prev) /\ QuietRun(str_start)
            /\ str_prev.wend = str_start.wbegin) => str_out = str_prev.out

\* C8 witness: two finished runs over an unchanged directory of two or more files
C8_Witness ==
    /\ str_pc = "done"
    /\ Len(str_out) >= 2
    /\ str_prev.valid /\ QuietRun(str_prev) /\ QuietRun(str_start)
    /\ str_prev.wend = str_start.wbegin

\* does the subscription filter select this event
Selected(event) == sub_filter = "*" \/ event.type = sub_filter

\* C9: subscribe(filter, callback, follow = False) calls the callback once
\* for every streamed event whose type matches the filter (or for every
\* event under "*"), in stream order, and a callback that raises does not
\* end the subscription: every later matching event is still delivered.
C9_SubscribeDeliversAll ==
    (str_pc = "done" /\ sub_filter # NoFilter) =>
        /\ sub_calls = SelectSeq(str_out, Selected)
        /\ {str_out[i].name : i \in 1..Len(str_out)} = DOMAIN str_start.begin
        /\ Len(sub_raised) = Len(sub_calls)

\* C9 witness: a finished subscription whose callback raised on the first
\* matching event and was called again on a later one, with an event of
\* another type skipped
C9_Witness ==
    /\ str_pc = "done"
    /\ sub_filter \in EventTypes
    /\ Len(sub_calls) >= 2
    /\ sub_raised[1]
    /\ Len(str_out) > Len(sub_calls)

\* C10: the agent_session table holds at most one row per (agent_name,
\* session_key); create_agent_session on an existing pair does not fail and
\* leaves that one row with the terminal_id, pid and mode of the call, and
\* returns its id.
C10_CreateSessionUpserts ==
    /\ \A i, j \in 1..Len(sessions) :
          (sessions[i].agent_name = sessions[j].agent_name
           /\ sessions[i].session_key = sessions[j].session_key) => i = j
    /\ store_ret.op = "create" =>
          \E i \in 1..Len(sessions) :
              /\ sessions[i].agent_name = store_ret.agent_name
              /\ sessions[i].session_key = store_ret.session_key
              /\ sessions[i].terminal_id = store_ret.terminal_id
              /\ sessions[i].pid = store_ret.pid
              /\ sessions[i].mode = store_ret.mode
              /\ sessions[i].id = store_ret.id

\* C10 witness: create_agent_session was called on a pair that had a row,
\* with another terminal id than the first call gave
C10_Witness ==
    /\ store_ret.op = "create"
    /\ store_ret.existed
    /\ store_ret.terminal_id = 2
    /\ Len(sessions) = 1

\* C11: once a session has status completed or failed, no call of
\* create_agent_session or update_agent_status on its key makes it active
\* again.
C11_StatusOnlyForward ==
    [][\A i \in 1..Len(sessions) :
          sessions[i].status \in {"completed", "failed"} =>
              (i <= Len(sessions') /\ sessions'[i].status # "active")]_vars

\* C12: every terminal id is the terminal id of at most one session whose
\* status is active.
C12_OneActiveSessionPerTerminal ==
    \A i, j \in 1..Len(sessions) :
        (/\ sessions[i].terminal_id # NoTerminal
         /\ sessions[i].terminal_id = sessions[j].terminal_id
         /\ sessions[i].status = "active"
         /\ sessions[j].status = "active") => i = j

MaxVersion(versions) ==
    IF versions = {} THEN 0 ELSE CHOOSE v \in versions : \A w \in versions : v >= w

\* C13: once the file records the current schema version, no step of a
\* further construction of the store applies a migration or changes the
\* recorded versions, the schema objects or the number of session rows; and
\* no step at all lowers the highest recorded version.
C13_OpenIsIdempotent ==
    [][/\ (CURRENT_SCHEMA_VERSION \in db_versions /\ schemaVars' # schemaVars) =>
            /\ db_versions' = db_versions
            /\ db_objects' = db_objects
            /\ n_migrations' = n_migrations
            /\ Len(sessions') = Len(sessions)
       /\ MaxVersion(db_versions') >= MaxVersion(db_versions)]_vars

\* a second construction has completed on a file that was at the current
\* version and held session rows when it began
C13_Witness ==
    /\ open_pc = "open"
    /\ n_opens >= 2
    /\ CURRENT_SCHEMA_VERSION \in open_pre.versions
    /\ open_pre.rows > 0
    /\ n_migrations = 1
    /\ db_versions = open_pre.versions
    /\ Len(sessions) = open_pre.rows

\* C14: whenever no construction is running (the process ended or crashed),
\* the file has either none of the objects of version 1 and no record of
\* version 1, or all of them and the record.
C14_MigrationAllOrNothing ==
    open_pc = "closed" =>
        \/ /\ 1 \notin db_versions
           /\ db_objects \cap Objects(V1Script) = {}
        \/ /\ 1 \in db_versions
           /\ Objects(V1Script) \subseteq db_objects

\* the mode of the last successful set_approval_mode for the agent, 'ask'
\* for none
LastApproved(history, agent_name) ==
    LET idx == {i \in 1..Len(history) : history[i].agent_name = agent_name}
    IN  IF idx = {} THEN "ask"
        ELSE history[CHOOSE i \in idx : \A j \in idx : i >= j].mode

\* C15: get_approval_mode returns the mode of the agent's most recent
\* successful set_approval_mode, or 'ask'; set_approval_mode with a mode
\* outside auto, ask, deny, plan-review raises and leaves the table as it
\* was; no agent has two rows.
C15_ApprovalModes ==
    /\ appr_ret.op = "get" => appr_ret.mode = LastApproved(appr_history, appr_ret.agent_name)
    /\ (appr_ret.op = "set" /\ appr_ret.mode \notin {"auto", "ask", "deny", "plan-review"}) =>
            (appr_ret.outcome = "raised" /\ approval_settings = appr_ret.before)
    /\ \A i, j \in 1..Len(approval_settings) :
            approval_settings[i].agent_name = approval_settings[j].agent_name => i = j

\* get_approval_mode has answered for an agent whose mode was set twice, to
\* two different modes
C15_Witness ==
    /\ appr_ret.op = "get"
    /\ Len(appr_history) = 2
    /\ appr_history[1].agent_name = appr_ret.agent_name
    /\ appr_history[2].agent_name = appr_ret.agent_name
    /\ appr_history[1].mode # appr_history[2].mode
    /\ appr_ret.mode = appr_history[2].mode

\* C16: for every sandbox mode at most one backend instance is ever
\* constructed, and every call of get_sandbox for the mode returns that
\* instance, also when threads call it concurrently on an empty cache.
C16_OneInstancePerMode ==
    \A mode \in FactoryModes :
        /\ Cardinality({b \in fac_built : b.mode = mode}) <= 1
        /\ \A r1, r2 \in fac_returned : (r1[1] = mode /\ r2[1] = mode) => r1[2] = r2[2]

\* the fields a request of the action must carry
RequiredFields(action) ==
    CASE action = Chars("emit_event") -> {Chars("event_type")}
      [] action = Chars("create_pane") -> {K_agent_name, K_session}
      [] action \in {Chars("kill_pane"), Chars("capture_pane")} -> {K_pane_id}
      [] action = Chars("send_keys") -> {K_pane_id, Chars("keys")}
      [] action = Chars("start_agent_session") -> {K_agent_name}
      [] action = Chars("end_agent_session") -> {Chars("session_key")}
      [] OTHER -> {}

HasKey(req, key) == \E i \in 1..Len(req.k) : req.k[i] = key

\* the required fields the request lacks
LackedFields(req) ==
    IF ~HasKey(req, Chars("action")) THEN {Chars("action")}
    ELSE {f \in RequiredFields(Get(req, Chars("action")).s) : ~HasKey(req, f)}

\* the <field> of a message that reads "Missing '<field>'..."
MissingFieldOf(message) ==
    CASE message = "Missing 'action' field" -> Chars("action")
      [] message = "Missing 'event_type'" -> Chars("event_type")
      [] message = "Missing 'agent_name' or 'session'" -> K_agent_name
      [] message = "Missing 'pane_id'" -> K_pane_id
      [] message = "Missing 'pane_id' or 'keys'" -> K_pane_id
      [] message = "Missing 'agent_name'" -> K_agent_name
      [] message = "Missing 'session_key'" -> Chars("session_key")
      [] OTHER -> <<>>

\* C18: a request without an action, with an unknown action or lacking a
\* required field of its action gets {status: error}, the message naming a
\* field it lacks ("Missing '<field>'") or the action ("Unknown action:
\* <action>"), and nothing is emitted, written or invoked on a sandbox.
C18_ErrorsWithoutEffect ==
    (/\ n_wire > 0
     /\ wire_request.t = "obj"
     /\ \/ LackedFields(wire_request) # {}
        \/ Get(wire_request, Chars("action")).s \notin WireActions) =>
        /\ ~wire_result.raised
        /\ wire_result.response.status = "error"
        /\ wire_result.effect = "none"
        /\ IF LackedFields(wire_request) = {}
           THEN /\ wire_result.response.error = "Unknown action: "
                /\ wire_result.response.arg = Get(wire_request, Chars("action")).s
           ELSE MissingFieldOf(wire_result.response.error) \in LackedFields(wire_request)

\* C19: _process_request answers start_agent_session carrying an agent name,
\* get_agent_sessions, and end_agent_session carrying a session key with
\* {status: ok}, the state store having done the work.
C19_SessionActionsSucceed ==
    (/\ n_wire > 0
     /\ wire_request.t = "obj"
     /\ Get(wire_request, Chars("action")).s \in
            {Chars("start_agent_session"), Chars("get_agent_sessions"), Chars("end_agent_session")}
     /\ LackedFields(wire_request) = {}) =>
        /\ ~wire_result.raised
        /\ wire_result.response.status = "ok"
        /\ wire_result.effect = "store"

\* C17: every connection the daemon closed received exactly one response,
\* with status ok or error, whatever the client sent and whatever the handler
\* raised; it is an error response when the payload did not parse.
C17_OneResponsePerConnection ==
    \A c \in 1..Len(conns) :
        conns[c].pc = "closed" =>
            /\ Len(conns[c].sent) = 1
            /\ conns[c].sent[1].status \in {"ok", "error"}
            /\ ~loads(conns[c].data).ok => conns[c].sent[1].status = "error"

\* C20: no connection accepted after an interrupt or a stop() call reaches
\* a handler, and when start() has returned the daemon is not running, its
\* listening socket is closed and the socket file it bound is gone.
C20_StopIsFinal ==
    /\ \A c \in 1..Len(conns) : conns[c].late => conns[c].pc \in {"pending", "accepted"}
    /\ main_pc = "done" => (~running /\ socket_server = "closed" /\ sock_file # "bound")

\* the file is missing or malformed: it does not exist, does not parse, is
\* empty, is no mapping, or its "agents" value is no list of mappings
Malformed(file) ==
    \/ file.kind # "mapping"
    \/ file.agents_kind \in {"null", "scalar", "string"}
    \/ \E i \in 1..Len(file.agents) : file.agents[i].kind = "scalar"

\* C21: after the daemon loaded a missing or malformed configuration file,
\* no global blocked command and no agent configuration is in force.
C21_MalformedConfigGivesEmptyPolicy ==
    (cfg_loaded /\ Malformed(cfg_file)) =>
        (global_policies.blocked_commands = {} /\ agent_configs = <<>>)

\* C22: no step of the daemon changes global_policies or agent_configs
\* after startup.
C22_PolicyImmutable ==
    [][agent_configs' = agent_configs /\ global_policies' = global_policies]_vars

\* C23: no connection is used by two threads and no thread uses two; and
\* when the NWorkers threads have made their calls, the store holds exactly
\* NWorkers sessions, one per key, and NWorkers events, one per thread.
C23_ThreadsEachWriteOnce ==
    /\ \A p, q \in st_used : (p[1] = q[1]) <=> (p[2] = q[2])
    /\ (\A t \in Workers : st_pc[t] = "done") =>
            /\ Len(sessions) = NWorkers
            /\ Len(event_log) = NWorkers
            /\ \A t \in Workers :
                /\ \E i \in 1..Len(sessions) : sessions[i].session_key = WorkerKey(t)
                /\ \E i \in 1..Len(event_log) : event_log[i].session_key = WorkerKey(t)

\* the threads have all returned, the last to create its session not being
\* the last to log its event
C23_Witness ==
    /\ \A t \in Workers : st_pc[t] = "done"
    /\ Len(sessions) = NWorkers
    /\ Cardinality(st_used) = NWorkers
    /\ sessions[NWorkers].session_key # event_log[NWorkers].session_key

C25_KillMissingTolerated ==
    [][(/\ n_requests' # n_requests
        /\ backend_call'.method = "kill"
        /\ ~Holds(backend_call'.mode, backend_call'.resource_id)) =>
            response'.status = "ok"]_vars

\* C26: the event log is append-only: every event file keeps its content,
\* every event row keeps its content and position, and neither set shrinks.
C26_EventLogAppendOnly ==
    [][/\ \A f \in DOMAIN files : f \in DOMAIN files' /\ files'[f] = files[f]
       /\ Len(event_log') >= Len(event_log)
       /\ SubSeq(event_log', 1, Len(event_log)) = event_log]_vars

\* C27: once the backlog of stream(follow=True) is exhausted the generator
\* goes on in the watch loop when a watch program is available, and in the
\* polling loop when none is; it does not raise.
C27_FollowFallsBackToPolling ==
    fol_pc \notin {"idle", "backlog"} =>
        /\ fol_pc # "raised"
        /\ (build(w_system, w_installed, TRUE, WatchedDir, FALSE).outcome # "returned"
                => fol_pc = "poll")

\* C30: build on a missing directory raises ValueError having probed
\* nothing; otherwise it probes inotifywait, fswatch and powershell in this
\* order up to the first that is installed and matches the platform and
\* returns its command, and raises WatcherNotAvailable when none is.
C30_BuildReturnsFirstQualifying ==
    w_result # NoBuild =>
        LET q == {i \in 1..3 :
                    /\ <<"inotifywait", "fswatch", "powershell">>[i] \in w_installed
                    /\ <<"Linux", "Darwin", "Windows">>[i] = w_system}
            first == CHOOSE i \in q : \A j \in q : i <= j
        IN  IF ~w_exists
            THEN w_result.outcome = "ValueError" /\ w_result.probed = <<>>
            ELSE IF q = {}
            THEN /\ w_result.outcome = "WatcherNotAvailable"
                 /\ w_result.probed = <<"inotifywait", "fswatch", "powershell">>
            ELSE /\ w_result.outcome = "returned"
                 /\ w_result.command.runner = <<"inotifywait", "fswatch", "powershell">>[first]
                 /\ w_result.command.args[1] = w_result.command.runner
                 /\ w_result.probed = SubSeq(<<"inotifywait", "fswatch", "powershell">>, 1, first)

C30_Witness ==
    /\ w_result.outcome = "returned"
    /\ w_result.command.runner = "fswatch"
    /\ w_installed = Programs

\* C28: on every policy and every non-empty keys string, whitespace-only
\* ones included, the policy check ends in allow or deny and does not raise.
C28_PolicyCheckNeverRaises ==
    pol_result # "unset" => pol_result \in {"allow", "deny"}

UnderDelimited(raw, delimiter) ==
    /\ delimiter = "" \/ \A i \in 1..Len(strip(raw)) : strip(raw)[i] # delimiter
    /\ \/ \A i \in 1..Len(strip(raw)) : strip(raw)[i] # " "
       \/ strip(raw) = <<>>

\* C31: normalize_output of an empty, whitespace-only or under-delimited
\* line returns None, raises nothing and leaves the debounce state as it was.
C31_MalformedLineGivesNothing ==
    [][(n_norm' # n_norm /\ UnderDelimited(nz_call'.raw, nz_call'.delimiter)) =>
            (nz_ret'.outcome = "None" /\ deb_last' = deb_last)]_vars

C31_Witness ==
    /\ n_norm = 2
    /\ deb_last # <<>>
    /\ nz_call.raw = <<"a", "a", "a">>
    /\ nz_call.delimiter = ""
    /\ nz_ret.outcome = "None"

\* C32: every event normalize_output returns has the kind modified, created
\* or deleted.
C32_KindIsCanonical ==
    nz_ret.outcome = "event" =>
        nz_ret.event.kind \in {KindChars("modified"), KindChars("created"), KindChars("deleted")}

\* C33: a should_emit call is suppressed exactly when a call with the same
\* path and the same kind was accepted less than the window before it and
\* no reset() came between them.
C33_DebounceFirstWins ==
    \A i \in 1..Len(deb_hist) :
        deb_hist[i].emit <=>
            ~\E j \in 1..(i - 1) :
                /\ deb_hist[j].path = deb_hist[i].path
                /\ deb_hist[j].kind = deb_hist[i].kind
                /\ deb_hist[j].epoch = deb_hist[i].epoch
                /\ deb_hist[j].emit
                /\ deb_hist[i].t - deb_hist[j].t < DebounceWindow

\* C34: with two handles opened concurrently on a fresh file, no
\* construction fails, no migration runs twice, once both are open every
\* version is recorded, and a write takes no lock the migration took.
C34_MigrationSerialized ==
    /\ \A h \in Handles : rc_pc[h] # "failed"
    /\ \A v \in 1..CURRENT_SCHEMA_VERSION : rc_applied[v] <= 1
    /\ (\A h \in Handles : rc_pc[h] = "open") => rc_versions = 1..CURRENT_SCHEMA_VERSION
    /\ \A h \in Handles : "write" \notin rc_locked[h]

\* C35: the daemon handles the complete payload the client sent: what it
\* parses is the whole text and it answers as _process_request answers the
\* request.
C35_WholeRequestHandled ==
    rv_pc = "handled" =>
        /\ rv_data = rv_payload
        /\ rv_sent = _handle_client(rv_payload, "ok").sent

\* C36: without a store, get_recent_events(event_type, limit) returns the
\* events of the `limit` last file names that have the type (all of them
\* for no type), in ascending order of file name.
C36_RecentFilesLastLimit ==
    [][(recent' # recent /\ recent'.source = "files") =>
        LET names == sorted(DOMAIN files)
            k == Min(recent'.limit, Len(names))
            taken == SubSeq(names, Len(names) - k + 1, Len(names))
            chosen == SelectSeq(taken, LAMBDA f : \/ recent'.event_type = NoType
                                                  \/ files[f].type = recent'.event_type)
        IN  /\ Len(recent'.events) = Len(chosen)
            /\ \A i \in 1..Len(chosen) :
                    /\ recent'.events[i].id = chosen[i]
                    /\ recent'.events[i].type = files[chosen[i]].type]_vars

\* C37: a send_keys to a pane recorded as the terminal of a session of an
\* agent with a non-empty allow-list, with a command whose first token is
\* not on the list, is denied, whatever the status of that session.
C37_DeniedAfterSessionEnds ==
    [][(/\ n_requests' # n_requests
        /\ request'.action = "send_keys"
        /\ request'.keys # <<>>
        /\ split(request'.keys) # <<>>
        /\ \E i \in 1..Len(sessions) :
              /\ sessions[i].terminal_id = request'.pane_id
              /\ HasNonEmptyAllowList(sessions[i].agent_name)
              /\ ~FirstTokenAllowed(sessions[i].agent_name, request'.keys)) =>
            (/\ response'.status = "error"
             /\ response'.error = "denied"
             /\ backend_call' = NoCall)]_vars

\* the resources a step has just made
MadeNow == {r \in DOMAIN resources' : r \notin DOMAIN resources /\ resources'[r].alive}

\* C38: a create_pane that answers an error has left no pane or container
\* running, and every pane the tmux backend makes is announced by an
\* agent.spawn event.
C38_CreateIsAtomic ==
    [][(n_requests' # n_requests /\ request'.action = "create_pane") =>
          /\ response'.status = "error" => MadeNow = {}
          /\ \A r \in MadeNow :
                resources'[r].mode = "tmux" =>
                    /\ n_emits' = n_emits + 1
                    /\ emit_req'.event_type = "agent.spawn"]_vars

\* the stream has yielded the event of that file
Yielded(name) == \E i \in 1..Len(fol_out) : fol_out[i] = name

\* C39: every event file present while a stream(follow=True) is running,
\* whether it was written before the start, during the backlog or later, is
\* eventually yielded, unless the generator has raised.
C39_NoEventSkipped ==
    \A name \in 0..MaxClock :
        [](fol_pc \in {"backlog", "watch", "poll"} /\ name \in DOMAIN files
              => <>(Yielded(name) \/ fol_pc = "raised"))

\* C40: no statement of start() or stop() of one daemon removes or replaces
\* the socket file that the other daemon has bound and is listening on.
C40_OthersSocketKept ==
    [][\A d \in Daemons :
          pd_pc'[d] # pd_pc[d] =>
              \A e \in Daemons \ {d} :
                  (pd_file = e /\ pd_listening[e]) => pd_file' = e]_vars
====
